---- MODULE Spec2Model ----
(***************************************************************************)
(* Model of the local-fs storage library (package storage):                *)
(*   - the AES-CFB codec of EncryptedStorage (encrypt / decrypt),          *)
(*   - the file operations of PlaintextStorage and EncryptedStorage, one   *)
(*     action per system call a handler makes (open, flock, fstat, read,   *)
(*     write, unlock, close, fsync), over a file system of names, inodes   *)
(*     and advisory locks.                                                 *)
(***************************************************************************)
EXTENDS Integers, Sequences, FiniteSets, TLC

\* ------------------------------------------------------------------ bounds
\* Longest payload a caller passes to a write or an append.
MaxLen == 2
\* Number of distinct initialization vectors the random source can deliver.
NumIVs == 2
\* Number of concurrent callers (goroutines) of the storage.
NumProcs == 2
\* Number of file names under the storage root.
NumPaths == 1
\* Number of calls made in one run of the concurrent specification.
MaxCalls == 2
\* Number of calls made in one run of the sequential specification.
MaxSeqCalls == 3
\* Number of calls made in one run of the specification of locking calls.
MaxLockCalls == 3
\* Number of calls made in one run of the specification with fairness.
MaxLiveCalls == 2
\* Largest number of entries of a directory besides "." and "..".
MaxEntries == 3
\* Length of the scratch buffer of ReadDirent (two records of the model; the
\* storage is built with 8192).
bufferSize == 48
\* Largest number of components of a path argument.
MaxDepth == 3
\* Longest buffer a caller passes to the Read of a file reader.
MaxBuffer == 2
\* Calls in a run of two storages side by side.
MaxTwinCalls == 3
\* Calls of the caller that runs next to a listing, and changes other
\* processes make to the directory while it is listed.
MaxScanCalls == 1
MaxChanges == 1

\* --------------------------------------------------------------- constants
\* aes.BlockSize: the length of the IV and of one keystream block.
BlockSize == 16
\* Offsets of the fields of syscall.Dirent, and the type tag of a regular file.
DirentInoOffset == 0
DirentReclenOffset == 16
DirentTypeOffset == 18
DirentNameOffset == 19
DT_REG == 8
\* os.ModePerm, the permission bits files and directories are created with.
ModePerm == 511

\* ------------------------------------------------------------------- bytes
Min(a, b) == IF a < b THEN a ELSE b

Zeros(n) == [i \in 1..n |-> 0]

RECURSIVE XorBits(_, _, _)
XorBits(a, b, n) ==
    IF n = 0 THEN 0
    ELSE (((a % 2) + (b % 2)) % 2) + (2 * XorBits(a \div 2, b \div 2, n - 1))

\* The exclusive or of two bytes, as XORKeyStream combines them.
XorByte(a, b) == XorBits(a, b, 8)

\* ------------------------------------------------------------------- codec
\* Result of a call that returns ([]byte, error).
Ok(v) == [ok |-> TRUE, val |-> v, err |-> "nil"]
Fail(e) == [ok |-> FALSE, val |-> <<>>, err |-> e]

\* aes.NewCipher accepts keys of 16, 24 or 32 bytes only.
NewCipherOk(key) == Len(key) \in {16, 24, 32}

\* The block cipher keyed by key applied to one 16-byte block (a keyed mixing
\* function standing for AES: CFB only ever uses this direction).
AesEncryptBlock(key, block) ==
    [i \in 1..BlockSize |->
        ((5 * block[i]) + (3 * block[(i % BlockSize) + 1])
           + key[((i - 1) % Len(key)) + 1] + i) % 256]

\* cfb.XORKeyStream(dst, src): the keystream block is the cipher applied to the
\* previous ciphertext block; the ciphertext is the output when encrypting and
\* the input when decrypting.
RECURSIVE XORKeyStream(_, _, _, _)
XORKeyStream(key, prev, src, decrypting) ==
    IF Len(src) = 0 THEN <<>>
    ELSE LET ks == AesEncryptBlock(key, prev)
             n == Min(Len(src), BlockSize)
             dst == [i \in 1..n |-> XorByte(src[i], ks[i])]
             fed == IF decrypting THEN SubSeq(src, 1, n) ELSE dst
         IN  IF Len(src) > BlockSize
             THEN dst \o XORKeyStream(key, fed, SubSeq(src, n + 1, Len(src)), decrypting)
             ELSE dst

\* A plausible slip: the cipher stream is returned without the IV in front.
encryptNoIV(key, iv, data) ==
    IF ~NewCipherOk(key) THEN Fail("invalid key size")
    ELSE Ok(XORKeyStream(key, iv, data, FALSE))

\* A plausible slip: a version byte is put in front of the IV.
encryptWithHeader(key, iv, data) ==
    IF ~NewCipherOk(key) THEN Fail("invalid key size")
    ELSE Ok(<<1>> \o iv \o XORKeyStream(key, iv, data, FALSE))

\* EncryptedStorage.encrypt with the IV the random source delivered.
encrypt(key, iv, data) ==
    IF ~NewCipherOk(key) THEN Fail("invalid key size")
    ELSE Ok(iv \o XORKeyStream(key, iv, data, FALSE))

\* A plausible slip: the IV is not cut off the front of the plaintext buffer.
decryptKeepsIV(key, data) ==
    IF ~NewCipherOk(key) THEN Fail("invalid key size")
    ELSE IF Len(data) < BlockSize THEN Fail("invalid blocksize")
    ELSE Ok(SubSeq(data, 1, BlockSize)
              \o XORKeyStream(key, SubSeq(data, 1, BlockSize),
                              SubSeq(data, BlockSize + 1, Len(data)), TRUE))

\* A plausible slip: bytes too short to hold an IV decrypt to nothing.
decryptShortIsEmpty(key, data) ==
    IF ~NewCipherOk(key) THEN Fail("invalid key size")
    ELSE IF Len(data) < BlockSize THEN Ok(<<>>)
    ELSE Ok(XORKeyStream(key, SubSeq(data, 1, BlockSize),
                         SubSeq(data, BlockSize + 1, Len(data)), TRUE))

\* EncryptedStorage.decrypt.
decrypt(key, data) ==
    IF ~NewCipherOk(key) THEN Fail("invalid key size")
    ELSE IF Len(data) < BlockSize THEN Fail("invalid blocksize")
    ELSE Ok(XORKeyStream(key, SubSeq(data, 1, BlockSize),
                         SubSeq(data, BlockSize + 1, Len(data)), TRUE))

\* The IVs the random source delivers in the model.
IVs == {[i \in 1..BlockSize |-> ((37 * k) + i) % 256] : k \in 1..NumIVs}

\* Keys a storage can be constructed with (any non-empty key passes the
\* constructor): two valid AES keys and two of a wrong length.
Key16 == [i \in 1..16 |-> (11 * i) % 256]
Key32 == [i \in 1..32 |-> ((7 * i) + 3) % 256]
ValidKeys == {Key16, Key32}
WrongKeys == {<<1, 2, 3>>, [i \in 1..17 |-> i]}

\* Payloads of at most MaxLen bytes, no byte shared between two of them.
Payloads == {[i \in 1..k |-> (10 * k) + i] : k \in 0..MaxLen}

\* Messages for the codec: every sequence over three byte values of at most
\* MaxLen bytes, and two messages longer than one and two cipher blocks.
RECURSIVE SeqsUpTo(_, _)
SeqsUpTo(S, n) ==
    IF n = 0 THEN {<<>>}
    ELSE LET shorter == SeqsUpTo(S, n - 1)
         IN  shorter \cup {Append(s, b) : s \in {t \in shorter : Len(t) = n - 1}, b \in S}

Messages ==
    SeqsUpTo({0, 1, 255}, MaxLen)
      \cup {[i \in 1..(BlockSize + 1) |-> i], [i \in 1..(2 * BlockSize + 1) |-> (7 * i) % 256]}


\* ------------------------------------------------------------- file system
Procs == 1..NumProcs
Paths == 1..NumPaths
\* An inode outlives its name while a descriptor is open on it.
Inodes == 1..(NumPaths + NumProcs)
NoIno == 0

Absent == [exists |-> FALSE, data |-> <<>>]
File(d) == [exists |-> TRUE, data |-> d]

NoCall == [facade |-> "none", op |-> "none", path |-> 0, data |-> <<>>]
NoLast == [facade |-> "none", op |-> "none", data |-> <<>>, ok |-> FALSE, pre |-> Absent]

VARIABLES
    codec,          \* the codec run of SpecCodec
    ctor,           \* the construction run of SpecCtor
    dir,            \* the enumeration run of SpecDir
    resolve,        \* the path run of SpecPaths
    stream,         \* the reader run of SpecStream
    twin,           \* the two-storage run of SpecTwin
    rotate,         \* the key rotation run of SpecRotate
    encryptionKey,  \* EncryptedStorage.encryptionKey
    names,          \* directory: path -> inode, or NoIno
    inodes,         \* inode -> file content
    pc, call,       \* per caller: position in the handler, the call in progress
    fd,             \* per caller: the inode its descriptor is open on, or NoIno
    locked,         \* per caller: its descriptor holds the flock
    synced,         \* per caller: an fsync of its descriptor has succeeded
    size,           \* per caller: fs.Size of Fstat
    buf,            \* per caller: bytes read
    out,            \* per caller: bytes to write
    ret,            \* per caller: what the call returns
    pre,            \* per caller: the file as it was when the call was made
    last,           \* per path: the call that returned last
    disk0,          \* per path: the file as it was initially
    callers,        \* the callers that make calls
    menu,           \* the calls they choose from
    budget          \* calls still to be made

fsvars == <<encryptionKey, names, inodes, pc, call, fd, locked, synced, size, buf, out,
            ret, pre, last, disk0, callers, menu, budget>>

\* The runs of the functions that touch no file.
pure == <<codec, ctor, dir, resolve, stream, twin, rotate>>

vars == <<pure, fsvars>>

\* What stat/open see at a path.
Stat(path) == IF names[path] = NoIno THEN Absent ELSE File(inodes[names[path]])

\* A plausible slip: a read creates the file it does not find.
ReadFileFullyFlagsCreate == {"O_RDONLY", "O_NONBLOCK", "O_CREAT"}

\* Plausible slips in the flags: a flag left out.
WriteFileExclusiveFlagsNoExcl == {"O_CREAT", "O_WRONLY", "O_NONBLOCK"}
WriteFileFlagsNoTrunc == {"O_CREAT", "O_WRONLY", "O_NONBLOCK"}
PlainAppendFileFlagsNoAppend == {"O_CREAT", "O_WRONLY", "O_NONBLOCK"}
touchFlagsNoExcl == {"O_RDONLY", "O_CREAT"}

\* The flags each handler passes to syscall.Open / os.OpenFile.
ReadFileFullyFlags == {"O_RDONLY", "O_NONBLOCK"}
WriteFileExclusiveFlags == {"O_CREAT", "O_WRONLY", "O_EXCL", "O_NONBLOCK"}
WriteFileFlags == {"O_CREAT", "O_WRONLY", "O_TRUNC", "O_NONBLOCK"}
PlainAppendFileFlags == {"O_CREAT", "O_WRONLY", "O_APPEND", "O_NONBLOCK"}
EncryptedAppendFileFlags == {"O_CREAT", "O_WRONLY", "O_TRUNC", "O_NONBLOCK"}
touchFlags == {"O_RDONLY", "O_CREAT", "O_EXCL"}

OpenFlags(c) ==
    CASE c.op = "ReadFileFully" -> ReadFileFullyFlags
      [] c.op = "WriteFileExclusive" -> WriteFileExclusiveFlags
      [] c.op = "WriteFile" -> WriteFileFlags
      [] c.op = "AppendFile" /\ c.facade = "plain" -> PlainAppendFileFlags
      [] c.op = "AppendFile" /\ c.facade = "enc" -> EncryptedAppendFileFlags
      [] c.op = "TouchFile" -> touchFlags
      [] OTHER -> {}

\* An inode with no name and no open descriptor is free.
FreeInodes(nm, fds) ==
    {i \in Inodes : (\A p \in Paths : nm[p] # i) /\ (\A q \in Procs : fds[q] # i)}

\* The kernel drops the content of every free inode.
Reclaim(nm, fds, ino) ==
    [i \in Inodes |-> IF i \in FreeInodes(nm, fds) THEN <<>> ELSE ino[i]]

\* open(2): ENOENT without O_CREAT on a missing name, EEXIST with
\* O_CREAT|O_EXCL on an existing one; O_CREAT makes an empty file, O_TRUNC
\* cuts an existing one to length 0 at once, before any lock is asked for.
SysOpen(path, flags) ==
    IF names[path] = NoIno
    THEN IF "O_CREAT" \in flags
         THEN LET free == FreeInodes(names, fd)
                  i == CHOOSE x \in free : \A y \in free : x <= y
              IN  [err |-> "nil", fd |-> i,
                   names |-> [names EXCEPT ![path] = i],
                   inodes |-> [inodes EXCEPT ![i] = <<>>]]
         ELSE [err |-> "ENOENT", fd |-> NoIno, names |-> names, inodes |-> inodes]
    ELSE IF "O_CREAT" \in flags /\ "O_EXCL" \in flags
         THEN [err |-> "EEXIST", fd |-> NoIno, names |-> names, inodes |-> inodes]
         ELSE [err |-> "nil", fd |-> names[path], names |-> names,
               inodes |-> IF "O_TRUNC" \in flags
                          THEN [inodes EXCEPT ![names[path]] = <<>>]
                          ELSE inodes]

\* write(2) of data on a fresh descriptor: at the end of the file with
\* O_APPEND, and from offset 0 otherwise (bytes beyond the data stay).
SysWrite(content, flags, data) ==
    IF "O_APPEND" \in flags THEN content \o data
    ELSE data \o SubSeq(content, Len(data) + 1, Len(content))

\* read(2) of a buffer of n zero bytes: EBADF on a descriptor opened
\* write-only; otherwise the bytes the file has, the rest of the buffer
\* staying zero.
SysRead(content, flags, n) ==
    IF "O_RDONLY" \notin flags THEN Fail("EBADF")
    ELSE LET got == Min(n, Len(content))
         IN  Ok(SubSeq(content, 1, got) \o Zeros(n - got))

\* stat(2) of a path under a root that can be searched: ENOENT when there is
\* no such name.
SysStat(path) == IF names[path] = NoIno THEN "ENOENT" ELSE "nil"

\* A plausible slip: no error counts as "does not exist".
IsNotExistNever(err) == FALSE

\* os.IsNotExist of an errno: ENOENT only.
IsNotExist(err) == err = "ENOENT"

\* nodeExists: (true, nil), (false, nil) when the name does not exist, and
\* (false, err) for any other failure of stat.
nodeExists(path) ==
    LET err == SysStat(path)
    IN  IF err = "nil" THEN Ok(<<TRUE>>)
        ELSE IF IsNotExist(err) THEN Ok(<<FALSE>>)
        ELSE [ok |-> FALSE, val |-> <<FALSE>>, err |-> err]

\* The handlers that encrypt the payload before they open the file.
EncryptsFirst(c) == c.facade = "enc" /\ c.op \in {"WriteFile", "WriteFileExclusive"}

WritingOps == {"WriteFile", "WriteFileExclusive", "AppendFile"}
AllOps == WritingOps \cup {"ReadFileFully", "Delete", "TouchFile", "Exists"}

FirstIV == CHOOSE iv \in IVs : TRUE

\* Contents a file can have before the run: raw payloads, and payloads
\* encrypted under the storage key.
InitialContents(key) ==
    Payloads \cup
      (IF NewCipherOk(key) THEN {encrypt(key, FirstIV, m).val : m \in Payloads} ELSE {})

\* No codec run is in progress.
CodecIdle == [pc |-> "off", key |-> <<>>, msg |-> <<>>, iv |-> <<>>,
              ct |-> Fail("unset"), pt |-> Fail("unset")]

\* No construction run is in progress.
CtorIdle == [pc |-> "off", kind |-> "none", root |-> "", key |-> <<>>,
             storage |-> "none", err |-> "nil", method |-> "none",
             outcome |-> "none", msg |-> "none"]

\* No enumeration run is in progress.
DirIdle == [pc |-> "off", fn |-> "none", ascending |-> TRUE, exists |-> FALSE,
            entries |-> <<>>, bad |-> 0, pos |-> 1, fd |-> "closed",
            result |-> <<>>, count |-> 0, err |-> "nil",
            isdir |-> TRUE, exists0 |-> FALSE, changed |-> {}]

\* No path run is in progress.
ResolveIdle == [pc |-> "off", method |-> "none", path |-> <<>>, filename |-> <<>>,
                tree |-> {}, tree0 |-> {}, err |-> "nil"]

\* No reader run is in progress.
StreamIdle == [pc |-> "off", content |-> <<>>, exists |-> FALSE, source |-> "nil",
               offset |-> 0, len |-> 0, n |-> 0, err |-> "nil", delivered |-> <<>>,
               key |-> <<>>, full |-> Fail("unset")]

\* No two-storage run is in progress.
TwinIdle == [pc |-> "off", key |-> <<>>, plain |-> <<>>, enc |-> <<>>, before |-> <<>>,
             calls |-> 0, last |-> [op |-> "none"], rp |-> [err |-> "nil"],
             re |-> [err |-> "nil"], gone |-> {}]

\* No key rotation run is in progress.
RotateIdle == [pc |-> "off", old |-> <<>>, new |-> <<>>, op |-> "none", msg |-> <<>>,
               hdr |-> [ptr |-> "nil", len |-> 0], written |-> {},
               copy |-> [ptr |-> "nil", len |-> 0], copied |-> {},
               key |-> <<>>, outcome |-> "none"]

InitFiles(keys, contents, who, calls, n) ==
    /\ codec = CodecIdle
    /\ ctor = CtorIdle
    /\ dir = DirIdle
    /\ resolve = ResolveIdle
    /\ stream = StreamIdle
    /\ twin = TwinIdle
    /\ rotate = RotateIdle
    /\ encryptionKey \in keys
    /\ \E present \in SUBSET Paths :
         \E content \in [present -> contents \cap InitialContents(encryptionKey)] :
            /\ names = [p \in Paths |-> IF p \in present THEN p ELSE NoIno]
            /\ inodes = [i \in Inodes |-> IF i \in present THEN content[i] ELSE <<>>]
    /\ disk0 = [p \in Paths |-> Stat(p)]
    /\ pc = [q \in Procs |-> "idle"]
    /\ call = [q \in Procs |-> NoCall]
    /\ fd = [q \in Procs |-> NoIno]
    /\ locked = [q \in Procs |-> FALSE]
    /\ synced = [q \in Procs |-> FALSE]
    /\ size = [q \in Procs |-> 0]
    /\ buf = [q \in Procs |-> <<>>]
    /\ out = [q \in Procs |-> <<>>]
    /\ ret = [q \in Procs |-> Fail("unset")]
    /\ pre = [q \in Procs |-> Absent]
    /\ last = [p \in Paths |-> NoLast]
    /\ callers = who
    /\ menu = calls
    /\ budget = n

\* Every call of the two storages, with every payload.
Menu(ops, payloads) ==
    {[facade |-> f, op |-> o, data |-> d] :
        f \in {"plain", "enc"}, o \in ops, d \in payloads}

FullMenu == Menu(WritingOps, Payloads) \cup Menu(AllOps \ WritingOps, {<<>>})

AnyContent == UNION {InitialContents(k) : k \in ValidKeys \cup WrongKeys}

\* Concurrent callers of a storage holding the key of the tests.
Init == InitFiles({Key32}, AnyContent, Procs, FullMenu, MaxCalls)

\* Concurrent callers of the calls that take the lock, of Delete and of
\* Exists, with one payload, over a file that is absent or holds that payload.
LongestPayload == CHOOSE d \in Payloads : \A e \in Payloads : Len(e) <= Len(d)

InitLocks ==
    InitFiles({Key32}, {LongestPayload}, Procs,
              Menu(WritingOps, {LongestPayload})
                \cup Menu({"ReadFileFully", "Delete", "Exists"}, {<<>>}),
              MaxLockCalls)

\* One caller, making its calls one after another, of a storage built with
\* any key the constructor accepts.
InitSeq == InitFiles(ValidKeys \cup WrongKeys, AnyContent, {1}, FullMenu, MaxSeqCalls)

\* A plausible slip: the file is opened (and closed again) before the payload
\* is encrypted; r is what the open would do.
OnEncryptErrorOpened(r) == [names |-> r.names, inodes |-> r.inodes]

\* The names and files when encrypt has failed: the handler returns before
\* syscall.Open, so they are as they were.
OnEncryptError(r) == [names |-> names, inodes |-> inodes]

\* A caller invokes a method of the Plain or the Encrypted storage.
Call(q) ==
    /\ pc[q] = "idle"
    /\ q \in callers
    /\ budget > 0
    /\ \E c \in menu, p \in Paths :
         /\ call' = [call EXCEPT ![q] =
                       [facade |-> c.facade, op |-> c.op, path |-> p, data |-> c.data]]
         /\ pre' = [pre EXCEPT ![q] = Stat(p)]
         /\ pc' = [pc EXCEPT ![q] = CASE c.op = "Delete" -> "remove"
                                       [] c.op \in {"Exists", "LastModification"} -> "stat"
                                       [] OTHER -> "open"]
    /\ budget' = budget - 1
    /\ UNCHANGED <<pure, encryptionKey, synced, names, inodes, fd, locked, size, buf, out,
                   ret, last, disk0, callers, menu>>

\* os.MkdirAll of the parent (the root, which exists), encrypt for the
\* Encrypted WriteFile / WriteFileExclusive, then syscall.Open.
Open(q) ==
    /\ pc[q] = "open"
    /\ LET c == call[q]
       IN  \E iv \in (IF EncryptsFirst(c) THEN IVs ELSE {FirstIV}) :
             LET o == IF EncryptsFirst(c) THEN encrypt(encryptionKey, iv, c.data)
                      ELSE Ok(c.data)
                 r == SysOpen(c.path, OpenFlags(c))
             IN  IF ~o.ok
                 THEN /\ ret' = [ret EXCEPT ![q] = Fail(o.err)]
                      /\ pc' = [pc EXCEPT ![q] = "done"]
                      /\ names' = OnEncryptError(r).names
                      /\ inodes' = OnEncryptError(r).inodes
                      /\ UNCHANGED <<fd, out>>
                 ELSE IF r.err # "nil"
                 THEN /\ ret' = [ret EXCEPT ![q] = Fail(r.err)]
                      /\ pc' = [pc EXCEPT ![q] = "done"]
                      /\ UNCHANGED <<names, inodes, fd, out>>
                 ELSE /\ names' = r.names
                      /\ inodes' = r.inodes
                      /\ fd' = [fd EXCEPT ![q] = r.fd]
                      /\ out' = [out EXCEPT ![q] = o.val]
                      /\ pc' = [pc EXCEPT ![q] = IF c.op = "TouchFile" THEN "close" ELSE "flock"]
                      /\ UNCHANGED ret
    /\ UNCHANGED <<pure, encryptionKey, synced, call, locked, size, buf, pre, last, disk0,
                   callers, menu, budget>>

\* syscall.Flock(fd, LOCK_EX): waits until no other descriptor holds the lock
\* of the same inode.
Flock(q) ==
    /\ pc[q] = "flock"
    /\ \A r \in Procs \ {q} : ~(locked[r] /\ fd[r] = fd[q])
    /\ locked' = [locked EXCEPT ![q] = TRUE]
    /\ pc' = [pc EXCEPT ![q] =
                IF call[q].op = "ReadFileFully"
                     \/ (call[q].op = "AppendFile" /\ call[q].facade = "enc")
                THEN "fstat" ELSE "write"]
    /\ UNCHANGED <<pure, encryptionKey, synced, names, inodes, call, fd, size, buf, out,
                   ret, pre, last, disk0, callers, menu, budget>>

\* syscall.Fstat(fd, &fs).
Fstat(q) ==
    /\ pc[q] = "fstat"
    /\ size' = [size EXCEPT ![q] = Len(inodes[fd[q]])]
    /\ pc' = [pc EXCEPT ![q] = "read"]
    /\ UNCHANGED <<pure, encryptionKey, synced, names, inodes, call, fd, locked, buf, out,
                   ret, pre, last, disk0, callers, menu, budget>>

\* A plausible slip: a handler that fails under the lock returns at once, with
\* no deferred unlock and close.
OnErrorReturn == "done"

\* Where a handler goes when a step under the lock fails: to its deferred
\* calls, the unlock first.
OnError == "unlock"

\* buf := make([]byte, fs.Size); syscall.Read(fd, buf); then what the handler
\* does with buf: return it (Plain), decrypt it (Encrypted ReadFileFully), or
\* decrypt it, build tail and encrypt tail (Encrypted AppendFile).
Read(q) ==
    /\ pc[q] = "read"
    /\ LET c == call[q]
           r == SysRead(inodes[fd[q]], OpenFlags(c), size[q])
           head == decrypt(encryptionKey, r.val)
           tail == Zeros(Len(head.val) + 1) \o head.val \o c.data
       IN  /\ buf' = [buf EXCEPT ![q] = r.val]
           /\ IF ~r.ok
              THEN /\ ret' = [ret EXCEPT ![q] = Fail(r.err)]
                   /\ pc' = [pc EXCEPT ![q] = OnError]
                   /\ UNCHANGED out
              ELSE IF c.op = "ReadFileFully"
              THEN /\ ret' = [ret EXCEPT ![q] = IF c.facade = "enc" THEN head ELSE r]
                   /\ pc' = [pc EXCEPT ![q] = "unlock"]
                   /\ UNCHANGED out
              ELSE IF ~head.ok
              THEN /\ ret' = [ret EXCEPT ![q] = Fail(head.err)]
                   /\ pc' = [pc EXCEPT ![q] = OnError]
                   /\ UNCHANGED out
              ELSE \E iv \in IVs :
                     LET o == encrypt(encryptionKey, iv, tail)
                     IN  IF ~o.ok
                         THEN /\ ret' = [ret EXCEPT ![q] = Fail(o.err)]
                              /\ pc' = [pc EXCEPT ![q] = OnError]
                              /\ UNCHANGED out
                         ELSE /\ out' = [out EXCEPT ![q] = o.val]
                              /\ pc' = [pc EXCEPT ![q] = "write"]
                              /\ UNCHANGED ret
    /\ UNCHANGED <<pure, encryptionKey, synced, names, inodes, call, fd, locked, size,
                   pre, last, disk0, callers, menu, budget>>

\* syscall.Write(fd, out).
Write(q) ==
    /\ pc[q] = "write"
    /\ inodes' = [inodes EXCEPT ![fd[q]] = SysWrite(inodes[fd[q]], OpenFlags(call[q]), out[q])]
    /\ ret' = [ret EXCEPT ![q] = Ok(<<>>)]
    /\ pc' = [pc EXCEPT ![q] = "unlock"]
    /\ UNCHANGED <<pure, encryptionKey, synced, names, call, fd, locked, size, buf, out,
                   pre, last, disk0, callers, menu, budget>>

\* The deferred syscall.Flock(fd, LOCK_UN): the last defer, so the first to run.
Unlock(q) ==
    /\ pc[q] = "unlock"
    /\ locked' = [locked EXCEPT ![q] = FALSE]
    /\ pc' = [pc EXCEPT ![q] = "close"]
    /\ UNCHANGED <<pure, encryptionKey, synced, names, inodes, call, fd, size, buf, out,
                   ret, pre, last, disk0, callers, menu, budget>>

\* The deferred syscall.Close(fd) (f.Close() in touch).
Close(q) ==
    /\ pc[q] = "close"
    /\ LET fds == [fd EXCEPT ![q] = NoIno]
       IN  /\ fd' = fds
           /\ inodes' = Reclaim(names, fds, inodes)
    /\ locked' = [locked EXCEPT ![q] = FALSE]
    /\ ret' = [ret EXCEPT ![q] = IF call[q].op = "TouchFile" THEN Ok(<<>>) ELSE @]
    /\ pc' = [pc EXCEPT ![q] = IF call[q].op \in WritingOps THEN "fsync" ELSE "done"]
    /\ UNCHANGED <<pure, encryptionKey, synced, names, call, size, buf, out, pre, last,
                   disk0, callers, menu, budget>>

\* syscall.Fsync(fd) after syscall.Close(fd) in the same deferred function:
\* the descriptor is closed, the call fails with EBADF and the error is dropped.
Fsync(q) ==
    /\ pc[q] = "fsync"
    /\ synced' = [synced EXCEPT ![q] = IF fd[q] # NoIno THEN TRUE ELSE @]
    /\ pc' = [pc EXCEPT ![q] = "done"]
    /\ UNCHANGED <<pure, encryptionKey, names, inodes, call, fd, locked, size, buf,
                   out, ret, pre, last, disk0, callers, menu, budget>>

\* Delete: os.RemoveAll, which removes the name if there is one and returns
\* nil also when there is none.
Remove(q) ==
    /\ pc[q] = "remove"
    /\ LET nm == [names EXCEPT ![call[q].path] = NoIno]
       IN  /\ names' = nm
           /\ inodes' = Reclaim(nm, fd, inodes)
    /\ ret' = [ret EXCEPT ![q] = Ok(<<>>)]
    /\ pc' = [pc EXCEPT ![q] = "done"]
    /\ UNCHANGED <<pure, encryptionKey, synced, call, fd, locked, size, buf, out, pre,
                   last, disk0, callers, menu, budget>>

\* Exists: nodeExists of the path.
Exists(q) ==
    /\ pc[q] = "stat"
    /\ call[q].op = "Exists"
    /\ ret' = [ret EXCEPT ![q] = nodeExists(call[q].path)]
    /\ pc' = [pc EXCEPT ![q] = "done"]
    /\ UNCHANGED <<pure, encryptionKey, synced, names, inodes, call, fd, locked, size, buf, out,
                   pre, last, disk0, callers, menu, budget>>

\* LastModification: modTime of the path, the error of stat if it fails.
LastModification(q) ==
    /\ pc[q] = "stat"
    /\ call[q].op = "LastModification"
    /\ ret' = [ret EXCEPT ![q] = IF SysStat(call[q].path) = "nil" THEN Ok(<<>>)
                                 ELSE Fail(SysStat(call[q].path))]
    /\ pc' = [pc EXCEPT ![q] = "done"]
    /\ UNCHANGED <<pure, encryptionKey, synced, names, inodes, call, fd, locked, size, buf, out,
                   pre, last, disk0, callers, menu, budget>>

\* The call returns to its caller.
Return(q) ==
    /\ pc[q] = "done"
    /\ last' = [last EXCEPT ![call[q].path] =
                  [facade |-> call[q].facade, op |-> call[q].op, data |-> call[q].data,
                   ok |-> ret[q].ok, pre |-> pre[q]]]
    /\ pc' = [pc EXCEPT ![q] = "idle"]
    /\ call' = [call EXCEPT ![q] = NoCall]
    /\ size' = [size EXCEPT ![q] = 0]
    /\ buf' = [buf EXCEPT ![q] = <<>>]
    /\ out' = [out EXCEPT ![q] = <<>>]
    /\ ret' = [ret EXCEPT ![q] = Fail("unset")]
    /\ pre' = [pre EXCEPT ![q] = Absent]
    /\ synced' = [synced EXCEPT ![q] = FALSE]
    /\ UNCHANGED <<pure, encryptionKey, names, inodes, fd, locked, disk0, callers, menu, budget>>

Next ==
    \E q \in Procs :
        \/ Call(q)
        \/ Open(q)
        \/ Flock(q)
        \/ Fstat(q)
        \/ Read(q)
        \/ Write(q)
        \/ Unlock(q)
        \/ Close(q)
        \/ Fsync(q)
        \/ Remove(q)
        \/ Exists(q)
        \/ Return(q)

Spec == Init /\ [][Next]_vars

SpecSeq == InitSeq /\ [][Next]_vars

SpecLocks == InitLocks /\ [][Next]_vars

\* Concurrent callers, each of which goes on running once it has made a call,
\* of the calls that take the lock, of Delete and of Exists.
InitLive ==
    InitFiles({Key32}, {LongestPayload}, Procs,
              Menu({"WriteFile", "AppendFile"}, {LongestPayload})
                \cup Menu({"ReadFileFully", "Delete", "Exists"}, {<<>>}),
              MaxLiveCalls)

\* The steps of the handler q has called.
Run(q) ==
    \/ Open(q)
    \/ Flock(q)
    \/ Fstat(q)
    \/ Read(q)
    \/ Write(q)
    \/ Unlock(q)
    \/ Close(q)
    \/ Fsync(q)
    \/ Remove(q)
    \/ Exists(q)
    \/ Return(q)

SpecLive == InitLive /\ [][Next]_vars /\ \A q \in Procs : WF_vars(Run(q))

\* ------------------------------------------------------------------ claims
IsCall(q, f, o) == call[q].facade = f /\ call[q].op = o

\* No call has returned yet: the calls in progress are the only ones made.
NoReturnYet == \A p \in Paths : last[p] = NoLast

\* The plaintext an Encrypted storage reads from stored bytes.
Plain(file) == decrypt(encryptionKey, file.data)

\* What a reader of the facade f finds stored at path p.
Holds(f, p, d) ==
    /\ Stat(p).exists
    /\ IF f = "enc" THEN Plain(Stat(p)) = Ok(d) ELSE Stat(p).data = d

\* C1: in a sequential run, a Plain ReadFileFully that follows a successful
\* Plain WriteFile(p, d) on the same path, with no call on p in between,
\* returns success and exactly d, whatever the file held before the write.
C1_PlainWriteReadRoundTrip ==
    \A q \in Procs :
        (/\ pc[q] = "done"
         /\ IsCall(q, "plain", "ReadFileFully")
         /\ last[call[q].path].facade = "plain"
         /\ last[call[q].path].op = "WriteFile"
         /\ last[call[q].path].ok)
        => (ret[q].ok /\ ret[q].val = last[call[q].path].data)

\* A read returned the payload of a write that replaced a longer content.
C1_Witness ==
    \E q \in Procs :
        /\ pc[q] = "done"
        /\ IsCall(q, "plain", "ReadFileFully")
        /\ last[call[q].path].facade = "plain"
        /\ last[call[q].path].op = "WriteFile"
        /\ last[call[q].path].ok
        /\ last[call[q].path].pre.exists
        /\ Len(last[call[q].path].pre.data) > Len(last[call[q].path].data)
        /\ Len(last[call[q].path].data) > 0
        /\ ret[q] = Ok(last[call[q].path].data)

\* C2: in a sequential run of a storage built with a valid key, an Encrypted
\* ReadFileFully that follows a successful Encrypted WriteFile(p, d) on the
\* same path returns success and exactly d, the empty d included.
C2_EncryptedWriteReadRoundTrip ==
    \A q \in Procs :
        (/\ NewCipherOk(encryptionKey)
         /\ pc[q] = "done"
         /\ IsCall(q, "enc", "ReadFileFully")
         /\ last[call[q].path].facade = "enc"
         /\ last[call[q].path].op = "WriteFile"
         /\ last[call[q].path].ok)
        => (ret[q].ok /\ ret[q].val = last[call[q].path].data)

\* An encrypted read returned the empty payload of the write before it, from a
\* file that holds the 16 bytes of the IV.
C2_Witness ==
    \E q \in Procs :
        /\ pc[q] = "done"
        /\ IsCall(q, "enc", "ReadFileFully")
        /\ last[call[q].path].facade = "enc"
        /\ last[call[q].path].op = "WriteFile"
        /\ last[call[q].path].ok
        /\ last[call[q].path].data = <<>>
        /\ ret[q] = Ok(<<>>)
        /\ Len(Stat(call[q].path).data) = BlockSize

\* C4: in a sequential run, an Encrypted AppendFile(p, d) on a file whose
\* decrypted content is m returns success and leaves a file whose decrypted
\* content is m followed by d.
C4_EncryptedAppendConcatenates ==
    \A q \in Procs :
        (/\ pc[q] = "done"
         /\ IsCall(q, "enc", "AppendFile")
         /\ pre[q].exists
         /\ Plain(pre[q]).ok)
        => (/\ ret[q].ok
            /\ Holds("enc", call[q].path, Plain(pre[q]).val \o call[q].data))

\* C5: when two Encrypted AppendFile calls, of a and of b, are the only calls
\* made on a file whose decrypted content is m, then once both are through,
\* both have succeeded and the decrypted content is m a b or m b a.
C5_NoLostUpdate ==
    \A q \in Procs : \A r \in Procs \ {q} :
        (/\ NoReturnYet
         /\ pc[q] = "done" /\ pc[r] = "done"
         /\ IsCall(q, "enc", "AppendFile") /\ IsCall(r, "enc", "AppendFile")
         /\ call[q].path = call[r].path
         /\ disk0[call[q].path].exists
         /\ Plain(disk0[call[q].path]).ok)
        => LET m == Plain(disk0[call[q].path]).val
               a == call[q].data
               b == call[r].data
           IN  /\ ret[q].ok /\ ret[r].ok
               /\ \/ Holds("enc", call[q].path, m \o a \o b)
                  \/ Holds("enc", call[q].path, m \o b \o a)

\* C6: in a sequential run, an Encrypted AppendFile on an existing file that
\* returns an error leaves at its path exactly the bytes that were there when
\* it was called.
C6_FailedAppendKeepsFile ==
    \A q \in Procs :
        (/\ pc[q] = "done"
         /\ IsCall(q, "enc", "AppendFile")
         /\ pre[q].exists
         /\ ~ret[q].ok)
        => Stat(call[q].path) = pre[q]

\* C7: for every path, at most one call in progress is between acquiring and
\* releasing the exclusive lock of that path.
C7_MutualExclusionPerPath ==
    \A p \in Paths :
        Cardinality({q \in Procs : locked[q] /\ call[q].path = p}) <= 1

\* C8: when a Plain ReadFileFully and a Plain WriteFile of new are the only
\* calls made on a file whose content is old, the read returns success and
\* exactly old or exactly new.
C8_ReadSeesOldOrNew ==
    \A q \in Procs : \A w \in Procs \ {q} :
        (/\ NoReturnYet
         /\ pc[q] = "done"
         /\ IsCall(q, "plain", "ReadFileFully")
         /\ IsCall(w, "plain", "WriteFile")
         /\ call[q].path = call[w].path
         /\ disk0[call[q].path].exists)
        => (/\ ret[q].ok
            /\ ret[q].val \in {disk0[call[q].path].data, call[w].data})

Solo(q) == NoReturnYet /\ \A r \in Procs \ {q} : pc[r] = "idle"

\* C10: a WriteFileExclusive(p, d) that is the only call made returns an error
\* and leaves the file as it was when p exists, and returns success and leaves
\* d at p when p is absent; when two WriteFileExclusive calls are the only
\* calls made on an absent path, then once both are through exactly one has
\* succeeded and the file holds the payload of that one.
C10_ExclusiveWrite ==
    \A q \in Procs :
        (pc[q] = "done" /\ call[q].op = "WriteFileExclusive")
        => LET p == call[q].path
           IN  /\ (Solo(q) /\ disk0[p].exists)
                    => (~ret[q].ok /\ Stat(p) = disk0[p])
               /\ (Solo(q) /\ ~disk0[p].exists)
                    => (ret[q].ok /\ Holds(call[q].facade, p, call[q].data))
               /\ \A r \in Procs \ {q} :
                    (/\ NoReturnYet
                     /\ ~disk0[p].exists
                     /\ pc[r] = "done"
                     /\ call[r].op = "WriteFileExclusive"
                     /\ call[r].path = p)
                    => /\ ret[q].ok # ret[r].ok
                       /\ ret[q].ok => Holds(call[q].facade, p, call[q].data)

\* Two exclusive writes of different payloads on an absent path are through,
\* one with success and the other with EEXIST.
C10_Witness ==
    \E q \in Procs : \E r \in Procs \ {q} :
        /\ NoReturnYet
        /\ pc[q] = "done" /\ pc[r] = "done"
        /\ call[q].op = "WriteFileExclusive" /\ call[r].op = "WriteFileExclusive"
        /\ call[q].path = call[r].path
        /\ ~disk0[call[q].path].exists
        /\ call[q].data # call[r].data
        /\ ret[q].ok
        /\ ret[r] = Fail("EEXIST")
        /\ Holds(call[q].facade, call[q].path, call[q].data)

\* C11: when a WriteFileExclusive(p, d) of some bytes on an absent path and one
\* Exists or ReadFileFully of the same storage on p are the only calls made, an Exists
\* that returned true did so when the file held d already (the writer is past
\* its write), and a ReadFileFully that returned success returned exactly d.
C11_ExclusiveWriteIsAtomic ==
    \A w \in Procs : \A q \in Procs \ {w} :
        (/\ NoReturnYet
         /\ call[w].op = "WriteFileExclusive"
         /\ Len(call[w].data) > 0
         /\ ~disk0[call[w].path].exists
         /\ pc[q] = "done"
         /\ call[q].path = call[w].path
         /\ call[q].facade = call[w].facade
         /\ ret[q].ok)
        => /\ (call[q].op = "Exists" /\ ret[q].val = <<TRUE>>)
                => pc[w] \notin {"flock", "write"}
           /\ call[q].op = "ReadFileFully" => ret[q].val = call[w].data

\* C12: in a sequential run, Delete(p) returns an error when p is absent, and
\* returns success and leaves no file at p when p exists.
C12_DeleteAbsentFails ==
    \A q \in Procs :
        (pc[q] = "done" /\ call[q].op = "Delete")
        => /\ ~pre[q].exists => ~ret[q].ok
           /\ pre[q].exists => (ret[q].ok /\ ~Stat(call[q].path).exists)

\* The calls that leave a file at their path when they succeed.
CreatingOps == WritingOps \cup {"TouchFile"}

\* C13: in a sequential run, Exists(p) returns no error and tells whether there
\* is a file at p: true after a successful TouchFile, WriteFile,
\* WriteFileExclusive or AppendFile, false after a Delete and for a path that
\* was never there.
C13_ExistsAgreesWithFiles ==
    \A q \in Procs :
        (pc[q] = "done" /\ call[q].op = "Exists")
        => LET p == call[q].path
           IN  /\ ret[q].ok
               /\ ret[q].val = <<Stat(p).exists>>
               /\ (last[p].op \in CreatingOps /\ last[p].ok) => ret[q].val = <<TRUE>>
               /\ last[p].op = "Delete" => ret[q].val = <<FALSE>>
               /\ (last[p] = NoLast /\ ~disk0[p].exists) => ret[q].val = <<FALSE>>

\* Exists returned (false, nil) for a file that was there and has been deleted.
C13_Witness ==
    \E q \in Procs :
        /\ pc[q] = "done"
        /\ call[q].op = "Exists"
        /\ last[call[q].path].op = "Delete"
        /\ last[call[q].path].pre.exists
        /\ ret[q] = Ok(<<FALSE>>)

C21_FlushBeforeRelease ==
    \A q \in Procs :
        (/\ call[q].op \in WritingOps
         /\ ret[q].ok
         /\ pc[q] \in {"close", "fsync", "done"})
        => synced[q]

\* C22: in a sequential run, AppendFile(p, d) on a path with no file returns
\* an error and makes no file.
C22_AppendFailsWhenAbsent ==
    \A q \in Procs :
        (pc[q] = "done" /\ call[q].op = "AppendFile" /\ ~pre[q].exists)
        => (~ret[q].ok /\ ~Stat(call[q].path).exists)

\* C23: in a sequential run, an Encrypted ReadFileFully of a file that holds
\* fewer than 16 bytes returns an error and no bytes, and the file stays as it
\* was.
C23_ShortCiphertextRejected ==
    \A q \in Procs :
        (/\ pc[q] = "done"
         /\ IsCall(q, "enc", "ReadFileFully")
         /\ pre[q].exists
         /\ Len(pre[q].data) < BlockSize)
        => (/\ ~ret[q].ok
            /\ ret[q].val = <<>>
            /\ Stat(call[q].path) = pre[q])

\* An Encrypted storage with a valid key has read the empty file a TouchFile
\* made, and decrypt has refused it for its length.
C23_Witness ==
    \E q \in Procs :
        /\ pc[q] = "done"
        /\ IsCall(q, "enc", "ReadFileFully")
        /\ last[call[q].path].op = "TouchFile"
        /\ last[call[q].path].ok
        /\ NewCipherOk(encryptionKey)
        /\ ret[q] = Fail("invalid blocksize")
        /\ Stat(call[q].path) = File(<<>>)

\* C26: in a sequential run of a storage built with a valid key, an Encrypted
\* AppendFile(p, d) on a path with no file returns success and leaves a file
\* whose decrypted content is d.
C26_EncryptedAppendCreates ==
    \A q \in Procs :
        (/\ pc[q] = "done"
         /\ IsCall(q, "enc", "AppendFile")
         /\ NewCipherOk(encryptionKey)
         /\ ~pre[q].exists)
        => (ret[q].ok /\ Holds("enc", call[q].path, call[q].data))

\* C27: when two Plain AppendFile calls, of a and of b, are the only calls
\* made on a path that held c (nothing, when there was no file), then once
\* both are through both have succeeded and the file holds c a b or c b a.
C27_PlainAppendsBothKept ==
    \A q \in Procs : \A r \in Procs \ {q} :
        (/\ NoReturnYet
         /\ pc[q] = "done" /\ pc[r] = "done"
         /\ IsCall(q, "plain", "AppendFile") /\ IsCall(r, "plain", "AppendFile")
         /\ call[q].path = call[r].path)
        => LET c == disk0[call[q].path].data
               a == call[q].data
               b == call[r].data
           IN  /\ ret[q].ok /\ ret[r].ok
               /\ \/ Holds("plain", call[q].path, c \o a \o b)
                  \/ Holds("plain", call[q].path, c \o b \o a)

\* Two appends, of two bytes and of one, to a file that held some bytes are
\* through, and the file holds what it held, then the two bytes, then the one.
C27_Witness ==
    \E q \in Procs : \E r \in Procs \ {q} :
        /\ NoReturnYet
        /\ pc[q] = "done" /\ pc[r] = "done"
        /\ IsCall(q, "plain", "AppendFile") /\ IsCall(r, "plain", "AppendFile")
        /\ call[q].path = call[r].path
        /\ Len(disk0[call[q].path].data) > 0
        /\ Len(call[q].data) = 2 /\ Len(call[r].data) = 1
        /\ Stat(call[q].path).data = disk0[call[q].path].data \o call[q].data \o call[r].data

\* C29: in a sequential run, a Plain ReadFileFully that follows a successful
\* Encrypted WriteFile(p, d) or WriteFileExclusive(p, d) returns 16 + len(d)
\* bytes: an IV, then the cipher stream of d under the key and that IV, which
\* decrypt under the key to d.
C29_EncryptedLayout ==
    \A q \in Procs :
        (/\ pc[q] = "done"
         /\ IsCall(q, "plain", "ReadFileFully")
         /\ last[call[q].path].facade = "enc"
         /\ last[call[q].path].op \in {"WriteFile", "WriteFileExclusive"}
         /\ last[call[q].path].ok)
        => LET d == last[call[q].path].data
               raw == ret[q].val
           IN  /\ ret[q].ok
               /\ Len(raw) = BlockSize + Len(d)
               /\ SubSeq(raw, 1, BlockSize) \in IVs
               /\ SubSeq(raw, BlockSize + 1, Len(raw))
                    = XORKeyStream(encryptionKey, SubSeq(raw, 1, BlockSize), d, FALSE)
               /\ decrypt(encryptionKey, raw) = Ok(d)

\* The raw bytes of a file an Encrypted WriteFileExclusive of two bytes made
\* have been read: 18 bytes, the last two not the payload.
C29_Witness ==
    \E q \in Procs :
        /\ pc[q] = "done"
        /\ IsCall(q, "plain", "ReadFileFully")
        /\ last[call[q].path].facade = "enc"
        /\ last[call[q].path].op = "WriteFileExclusive"
        /\ last[call[q].path].ok
        /\ Len(last[call[q].path].data) = 2
        /\ ret[q].ok
        /\ Len(ret[q].val) = BlockSize + 2
        /\ SubSeq(ret[q].val, BlockSize + 1, BlockSize + 2) # last[call[q].path].data

C35_FailedEncryptLeavesFile ==
    /\ \A q \in Procs :
         (/\ pc[q] = "done"
          /\ call[q].facade = "enc"
          /\ call[q].op \in {"WriteFile", "WriteFileExclusive"}
          /\ ~NewCipherOk(encryptionKey)
          /\ ~ret[q].ok)
         => Stat(call[q].path) = pre[q]
    /\ \A p \in Paths :
         (/\ last[p].facade = "enc"
          /\ last[p].op \in {"WriteFile", "WriteFileExclusive"}
          /\ ~NewCipherOk(encryptionKey)
          /\ ~last[p].ok
          /\ \A q \in Procs : pc[q] = "idle")
         => Stat(p) = last[p].pre

\* An Encrypted WriteFile of a payload has failed on the key over a file that
\* holds bytes, and has returned.
C35_Witness ==
    \E p \in Paths :
        /\ last[p].facade = "enc"
        /\ last[p].op = "WriteFile"
        /\ Len(last[p].data) > 0
        /\ ~NewCipherOk(encryptionKey)
        /\ ~last[p].ok
        /\ last[p].pre.exists
        /\ Len(last[p].pre.data) > 0
        /\ \A q \in Procs : pc[q] = "idle"

\* ------------------------------------------------------------- codec runs

InitCodec ==
    /\ \E k \in ValidKeys \cup WrongKeys, m \in Messages :
         codec = [CodecIdle EXCEPT !.pc = "start", !.key = k, !.msg = m]
    /\ ctor = CtorIdle
    /\ dir = DirIdle
    /\ resolve = ResolveIdle
    /\ stream = StreamIdle
    /\ twin = TwinIdle
    /\ rotate = RotateIdle
    /\ encryptionKey = codec.key
    /\ names = [p \in Paths |-> NoIno]
    /\ inodes = [i \in Inodes |-> <<>>]
    /\ disk0 = [p \in Paths |-> Absent]
    /\ pc = [q \in Procs |-> "idle"]
    /\ call = [q \in Procs |-> NoCall]
    /\ fd = [q \in Procs |-> NoIno]
    /\ locked = [q \in Procs |-> FALSE]
    /\ synced = [q \in Procs |-> FALSE]
    /\ size = [q \in Procs |-> 0]
    /\ buf = [q \in Procs |-> <<>>]
    /\ out = [q \in Procs |-> <<>>]
    /\ ret = [q \in Procs |-> Fail("unset")]
    /\ pre = [q \in Procs |-> Absent]
    /\ last = [p \in Paths |-> NoLast]
    /\ callers = {}
    /\ menu = {}
    /\ budget = 0

\* encrypt(msg) with a fresh IV.
CodecEncrypt ==
    /\ codec.pc = "start"
    /\ \E iv \in IVs :
         codec' = [codec EXCEPT !.pc = "encrypted", !.iv = iv,
                                !.ct = encrypt(codec.key, iv, codec.msg)]
    /\ UNCHANGED <<ctor, dir, resolve, stream, twin, rotate, fsvars>>

\* decrypt of what encrypt returned.
CodecDecrypt ==
    /\ codec.pc = "encrypted"
    /\ codec.ct.ok
    /\ codec' = [codec EXCEPT !.pc = "decrypted",
                              !.pt = decrypt(codec.key, codec.ct.val)]
    /\ UNCHANGED <<ctor, dir, resolve, stream, twin, rotate, fsvars>>

\* decrypt of arbitrary stored bytes.
CodecDecryptRaw ==
    /\ codec.pc = "start"
    /\ codec' = [codec EXCEPT !.pc = "rawdecrypted",
                              !.pt = decrypt(codec.key, codec.msg)]
    /\ UNCHANGED <<ctor, dir, resolve, stream, twin, rotate, fsvars>>

NextCodec == CodecEncrypt \/ CodecDecrypt \/ CodecDecryptRaw

SpecCodec == InitCodec /\ [][NextCodec]_vars

\* C3: for every valid key and every message m, encrypt succeeds, its result is
\* len(m) + 16 bytes long and starts with the IV, and decrypt of it succeeds
\* and returns exactly m.
C3_CodecRoundTrip ==
    NewCipherOk(codec.key) =>
        /\ codec.pc \in {"encrypted", "decrypted"} =>
              /\ codec.ct.ok
              /\ Len(codec.ct.val) = Len(codec.msg) + BlockSize
              /\ SubSeq(codec.ct.val, 1, BlockSize) = codec.iv
        /\ codec.pc = "decrypted" =>
              /\ codec.pt.ok
              /\ codec.pt.val = codec.msg

\* A message longer than one block went through encrypt and decrypt, and the
\* cipher stream differs from the message.
C3_Witness ==
    /\ codec.pc = "decrypted"
    /\ NewCipherOk(codec.key)
    /\ Len(codec.msg) > BlockSize
    /\ codec.pt.ok
    /\ SubSeq(codec.ct.val, BlockSize + 1, Len(codec.ct.val)) # codec.msg

\* ------------------------------------------------------ construction runs
\* Roots a constructor is given: none, one that cannot be made, one that can.
Roots == {"", "/proc/none/x", "/data"}

\* os.MkdirAll(filepath.Clean(root)) succeeds.
MkdirAllOk(root) == root = "/data"

\* The methods of the Storage interface.
StorageMethods ==
    {"Chmod", "ListDirectory", "CountFiles", "Exists", "TouchFile", "Mkdir",
     "ReadFileFully", "WriteFileExclusive", "WriteFile", "Delete", "AppendFile",
     "LastModification"}

\* The methods NilStorage declares.
NilStorageMethods ==
    {"ListDirectory", "CountFiles", "Exists", "LastModification", "TouchFile",
     "DeleteFile", "ReadFileFully", "WriteFileExclusive", "WriteFile", "AppendFile"}

NewPlaintextStorage(root) ==
    IF root = ""
    THEN [storage |-> "NilStorage", err |-> "invalid root directory"]
    ELSE IF ~MkdirAllOk(root)
    THEN [storage |-> "NilStorage", err |-> "unable to assert root storage directory"]
    ELSE [storage |-> "PlaintextStorage", err |-> "nil"]

NewEncryptedStorage(root, key) ==
    IF root = ""
    THEN [storage |-> "NilStorage", err |-> "invalid root directory"]
    ELSE IF ~MkdirAllOk(root)
    THEN [storage |-> "NilStorage", err |-> "unable to assert root storage directory"]
    ELSE IF Len(key) = 0
    THEN [storage |-> "NilStorage", err |-> "no encryption key setup"]
    ELSE [storage |-> "EncryptedStorage", err |-> "nil"]

\* A method of the interface called on NilStorage{}: the method NilStorage
\* declares runs; any other is promoted from the embedded Storage, which is
\* nil, and the call panics.
NilStorageCall(method) ==
    IF method \in NilStorageMethods
    THEN [outcome |-> "error", msg |-> "storage not initialized properly"]
    ELSE [outcome |-> "panic", msg |-> "nil pointer dereference"]

InitCtor ==
    /\ \E k \in {"plain", "enc"}, r \in Roots, key \in {<<>>} \cup ValidKeys \cup WrongKeys :
         /\ k = "plain" => key = <<>>
         /\ ctor = [CtorIdle EXCEPT !.pc = "start", !.kind = k, !.root = r, !.key = key]
    /\ codec = CodecIdle
    /\ dir = DirIdle
    /\ resolve = ResolveIdle
    /\ stream = StreamIdle
    /\ twin = TwinIdle
    /\ rotate = RotateIdle
    /\ encryptionKey = <<>>
    /\ names = [p \in Paths |-> NoIno]
    /\ inodes = [i \in Inodes |-> <<>>]
    /\ disk0 = [p \in Paths |-> Absent]
    /\ pc = [q \in Procs |-> "idle"]
    /\ call = [q \in Procs |-> NoCall]
    /\ fd = [q \in Procs |-> NoIno]
    /\ locked = [q \in Procs |-> FALSE]
    /\ synced = [q \in Procs |-> FALSE]
    /\ size = [q \in Procs |-> 0]
    /\ buf = [q \in Procs |-> <<>>]
    /\ out = [q \in Procs |-> <<>>]
    /\ ret = [q \in Procs |-> Fail("unset")]
    /\ pre = [q \in Procs |-> Absent]
    /\ last = [p \in Paths |-> NoLast]
    /\ callers = {}
    /\ menu = {}
    /\ budget = 0

\* storage, err := NewPlaintextStorage(root)
CtorNewPlaintext ==
    /\ ctor.pc = "start"
    /\ ctor.kind = "plain"
    /\ LET r == NewPlaintextStorage(ctor.root)
       IN  ctor' = [ctor EXCEPT !.pc = "built", !.storage = r.storage, !.err = r.err]
    /\ UNCHANGED <<codec, dir, resolve, stream, twin, rotate, fsvars>>

\* storage, err := NewEncryptedStorage(root, key)
CtorNewEncrypted ==
    /\ ctor.pc = "start"
    /\ ctor.kind = "enc"
    /\ LET r == NewEncryptedStorage(ctor.root, ctor.key)
       IN  ctor' = [ctor EXCEPT !.pc = "built", !.storage = r.storage, !.err = r.err]
    /\ UNCHANGED <<codec, dir, resolve, stream, twin, rotate, fsvars>>

\* A caller that dropped the error calls a method of the Nil storage.
CtorCallNil ==
    /\ ctor.pc = "built"
    /\ ctor.storage = "NilStorage"
    /\ \E m \in StorageMethods :
         LET r == NilStorageCall(m)
         IN  ctor' = [ctor EXCEPT !.pc = "called", !.method = m,
                                  !.outcome = r.outcome, !.msg = r.msg]
    /\ UNCHANGED <<codec, dir, resolve, stream, twin, rotate, fsvars>>

\* The first use of the key of an Encrypted storage: the encrypt of a
\* WriteFile or WriteFileExclusive.
CtorFirstUse ==
    /\ ctor.pc = "built"
    /\ ctor.storage = "EncryptedStorage"
    /\ \E m \in {"WriteFile", "WriteFileExclusive"}, d \in Payloads, iv \in IVs :
         LET r == encrypt(ctor.key, iv, d)
         IN  ctor' = [ctor EXCEPT !.pc = "called", !.method = m,
                                  !.outcome = IF r.ok THEN "ok" ELSE "error",
                                  !.msg = r.err]
    /\ UNCHANGED <<codec, dir, resolve, stream, twin, rotate, fsvars>>

\* The methods PlaintextStorage declares.
PlaintextStorageMethods ==
    {"Chmod", "ListDirectory", "CountFiles", "Exists", "LastModification", "TouchFile",
     "Delete", "ReadFileFully", "WriteFileExclusive", "WriteFile", "AppendFile"}

\* The methods EncryptedStorage declares.
EncryptedStorageMethods ==
    {"Chmod", "ListDirectory", "CountFiles", "Exists", "LastModification", "TouchFile",
     "Mkdir", "Delete", "ReadFileFully", "WriteFileExclusive", "WriteFile", "AppendFile"}

\* A method of the interface called on a storage a constructor built: the
\* method the variant declares runs and returns; any other is promoted from
\* the embedded Storage, which no constructor sets, and the call panics.
StorageCall(storage, method) ==
    IF method \in (IF storage = "PlaintextStorage" THEN PlaintextStorageMethods
                   ELSE EncryptedStorageMethods)
    THEN [outcome |-> "returns", msg |-> "nil"]
    ELSE [outcome |-> "panic", msg |-> "nil pointer dereference"]

\* A caller calls a method of the interface on the storage it was given.
CtorDispatch ==
    /\ ctor.pc = "built"
    /\ ctor.storage \in {"PlaintextStorage", "EncryptedStorage"}
    /\ \E m \in StorageMethods :
         LET r == StorageCall(ctor.storage, m)
         IN  ctor' = [ctor EXCEPT !.pc = "dispatched", !.method = m,
                                  !.outcome = r.outcome, !.msg = r.msg]
    /\ UNCHANGED <<codec, dir, resolve, stream, twin, rotate, fsvars>>

NextCtor ==
    CtorNewPlaintext \/ CtorNewEncrypted \/ CtorCallNil \/ CtorFirstUse \/ CtorDispatch

SpecCtor == InitCtor /\ [][NextCtor]_vars

\* C15: every method of the Storage interface called on the Nil storage
\* returns the error "storage not initialized properly" and does not panic.
C15_NilStorageFailsClosed ==
    (ctor.pc = "called" /\ ctor.storage = "NilStorage")
    => (ctor.outcome = "error" /\ ctor.msg = "storage not initialized properly")

\* C16: a constructor given an empty or uncreatable root, or a key that is
\* empty or of a length the cipher does not take, returns an error and the Nil
\* storage; the first use of the key of an Encrypted storage that a constructor
\* returned does not fail on the key.
C16_ConstructionRejectsInvalid ==
    /\ (/\ ctor.pc \in {"built", "called"}
        /\ \/ ~MkdirAllOk(ctor.root)
           \/ ctor.kind = "enc" /\ ~NewCipherOk(ctor.key))
       => (ctor.err # "nil" /\ ctor.storage = "NilStorage")
    /\ (ctor.pc = "called" /\ ctor.storage = "EncryptedStorage")
       => ctor.outcome = "ok"

\* C34: every method of the Storage interface called on a Plain or an
\* Encrypted storage that a constructor returned with no error runs a method
\* the variant declares and returns; none is dispatched to the embedded nil
\* Storage.
C34_EveryMethodImplemented ==
    ctor.pc = "dispatched" => ctor.outcome = "returns"

\* ------------------------------------------------------- enumeration runs
RECURSIVE LittleEndian(_, _)
LittleEndian(n, k) ==
    IF k = 0 THEN <<>> ELSE <<n % 256>> \o LittleEndian(n \div 256, k - 1)

RECURSIVE FromLittleEndian(_)
FromLittleEndian(b) ==
    IF Len(b) = 0 THEN 0 ELSE b[1] + (256 * FromLittleEndian(Tail(b)))

\* The names of the model, as bytes: ".", "..", "a", "b", "ab".
Dot == <<46>>
DotDot == <<46, 46>>
FileNames == <<(<<97>>), (<<98>>), (<<97, 98>>)>>

\* The type tags of the entries: a regular file, a directory, a symlink.
EntryTypes == {DT_REG, 4, 10}

\* The length of the record the kernel makes for a name: the header, the
\* name and its terminating zero, rounded up to a multiple of 8.
RecLen(name) == 8 * ((DirentNameOffset + Len(name) + 1 + 7) \div 8)

\* The bytes of one record: d_ino, d_off, d_reclen, d_type, d_name.
DirentBytes(e) ==
    LittleEndian(e.ino, 8) \o Zeros(8) \o LittleEndian(e.reclen, 2) \o <<e.type>>
      \o e.name \o Zeros(RecLen(e.name) - (DirentNameOffset + Len(e.name)))

\* The number of whole records, from entry pos on, that fit in room bytes.
RECURSIVE Fit(_, _, _)
Fit(entries, pos, room) ==
    IF pos > Len(entries) THEN 0
    ELSE IF RecLen(entries[pos].name) > room THEN 0
    ELSE 1 + Fit(entries, pos + 1, room - RecLen(entries[pos].name))

RECURSIVE Records(_, _, _)
Records(entries, pos, k) ==
    IF k = 0 THEN <<>>
    ELSE DirentBytes(entries[pos]) \o Records(entries, pos + 1, k - 1)

\* syscall.ReadDirent(fd, scratchBuffer): the next whole records that fit in
\* the buffer, no bytes at the end of the directory, EINVAL when the buffer is
\* too small for the next record.
ReadDirent(entries, pos, room) ==
    LET k == Fit(entries, pos, room)
    IN  IF pos <= Len(entries) /\ k = 0
        THEN [err |-> "EINVAL", buf |-> <<>>, k |-> 0]
        ELSE [err |-> "nil", buf |-> Records(entries, pos, k), k |-> k]

\* bytes.IndexByte(s, c): the index from 0 of the first c, or -1.
IndexByte(s, c) ==
    IF \E i \in 1..Len(s) : s[i] = c
    THEN (CHOOSE i \in 1..Len(s) : s[i] = c /\ \A j \in 1..(i - 1) : s[j] # c) - 1
    ELSE -1

\* The name of the record at the front of the buffer: reclen - offset(Name) bytes
\* from Name[0] on, cut at the first zero byte.
nameFromDirent(rest, reclen) ==
    LET nameSlice == SubSeq(rest, DirentNameOffset + 1, reclen)
        index == IndexByte(nameSlice, 0)
    IN  IF index >= 0 THEN SubSeq(nameSlice, 1, index) ELSE nameSlice

\* A plausible slip: ".." is not filtered.
SkippedNameOnlyDot(nameSlice) == Len(nameSlice) = 0 \/ nameSlice = Dot

\* The switch on len(nameSlice): the empty name, "." and ".." are skipped.
SkippedName(nameSlice) ==
    \/ Len(nameSlice) = 0
    \/ Len(nameSlice) = 1 /\ nameSlice[1] = 46
    \/ Len(nameSlice) = 2 /\ nameSlice[1] = 46 /\ nameSlice[2] = 46

\* A plausible slip: the type of the entry is not looked at.
CountedAnyType(ino, type) == ino # 0

\* countFiles counts the entry: de.Ino != 0 and de.Type == DT_REG.
Counted(ino, type) == ~(ino = 0 \/ type # DT_REG)

\* A plausible slip: the inner loop ends at the record of a removed entry
\* (break for continue).
RECURSIVE listRecordsStopsAtRemoved(_, _)
listRecordsStopsAtRemoved(rest, result) ==
    IF Len(rest) = 0 THEN [err |-> "nil", result |-> result]
    ELSE LET ino == FromLittleEndian(SubSeq(rest, DirentInoOffset + 1, DirentInoOffset + 8))
             reclen == FromLittleEndian(SubSeq(rest, DirentReclenOffset + 1, DirentReclenOffset + 2))
             nameSlice == nameFromDirent(rest, reclen)
         IN  IF reclen > Len(rest)
             THEN [err |-> "panic: slice bounds out of range", result |-> result]
             ELSE IF ino = 0 THEN [err |-> "nil", result |-> result]
             ELSE listRecordsStopsAtRemoved(SubSeq(rest, reclen + 1, Len(rest)),
                               IF SkippedName(nameSlice)
                               THEN result ELSE Append(result, nameSlice))

\* The inner loop of listDirectory over the bytes ReadDirent delivered.
\* buf = buf[de.Reclen:] panics when Reclen exceeds len(buf).
RECURSIVE listRecords(_, _)
listRecords(rest, result) ==
    IF Len(rest) = 0 THEN [err |-> "nil", result |-> result]
    ELSE LET ino == FromLittleEndian(SubSeq(rest, DirentInoOffset + 1, DirentInoOffset + 8))
             reclen == FromLittleEndian(SubSeq(rest, DirentReclenOffset + 1, DirentReclenOffset + 2))
             nameSlice == nameFromDirent(rest, reclen)
         IN  IF reclen > Len(rest)
             THEN [err |-> "panic: slice bounds out of range", result |-> result]
             ELSE listRecords(SubSeq(rest, reclen + 1, Len(rest)),
                              IF ino = 0 \/ SkippedName(nameSlice)
                              THEN result ELSE Append(result, nameSlice))

\* The inner loop of countFiles.
RECURSIVE countRecords(_, _)
countRecords(rest, result) ==
    IF Len(rest) = 0 THEN [err |-> "nil", result |-> result]
    ELSE LET ino == FromLittleEndian(SubSeq(rest, DirentInoOffset + 1, DirentInoOffset + 8))
             reclen == FromLittleEndian(SubSeq(rest, DirentReclenOffset + 1, DirentReclenOffset + 2))
             type == rest[DirentTypeOffset + 1]
         IN  IF reclen > Len(rest)
             THEN [err |-> "panic: slice bounds out of range", result |-> result]
             ELSE countRecords(SubSeq(rest, reclen + 1, Len(rest)),
                               IF Counted(ino, type) THEN result + 1 ELSE result)

\* result[i] < result[j] on Go strings: byte-wise lexicographic order.
StringLess(a, b) ==
    \E i \in 1..(Len(a) + 1) :
        /\ i <= Len(b)
        /\ \A j \in 1..(i - 1) : a[j] = b[j]
        /\ (i = Len(a) + 1 \/ a[i] < b[i])

\* sort.Slice(result, less): an insertion sort by the less of the caller.
RECURSIVE InsertSorted(_, _, _)
InsertSorted(sorted, x, ascending) ==
    IF Len(sorted) = 0 THEN <<x>>
    ELSE IF (IF ascending THEN StringLess(x, Head(sorted)) ELSE StringLess(Head(sorted), x))
    THEN <<x>> \o sorted
    ELSE <<Head(sorted)>> \o InsertSorted(Tail(sorted), x, ascending)

RECURSIVE SortSlice(_, _)
SortSlice(result, ascending) ==
    IF Len(result) = 0 THEN <<>>
    ELSE InsertSorted(SortSlice(Tail(result), ascending), Head(result), ascending)

\* The sequences without repetition of at most n of the indices of FileNames.
RECURSIVE Arrangements(_)
Arrangements(n) ==
    IF n = 0 THEN {<<>>}
    ELSE LET shorter == Arrangements(n - 1)
             longest == {b \in shorter : Len(b) = n - 1}
             unused(c) == (1..Len(FileNames)) \ {c[x] : x \in 1..Len(c)}
         IN  shorter \cup UNION {{Append(c, i) : i \in unused(c)} : c \in longest}

\* The directories of the model, in the order the kernel delivers them: ".",
\* "..", then up to MaxEntries entries of different names, each a regular
\* file, a directory or a symlink, live (ino 7) or deleted (ino 0).
Directories ==
    UNION {
      {<<[ino |-> 2, type |-> 4, name |-> Dot, reclen |-> RecLen(Dot)],
         [ino |-> 1, type |-> 4, name |-> DotDot, reclen |-> RecLen(DotDot)]>>
         \o [i \in 1..Len(a) |->
               [ino |-> tags[i][1], type |-> tags[i][2], name |-> FileNames[a[i]],
                reclen |-> RecLen(FileNames[a[i]])]] :
         tags \in [1..Len(a) -> {0, 7} \X EntryTypes]} :
      a \in Arrangements(Min(MaxEntries, Len(FileNames)))}

\* The directory with the length field of entry bad (if any) made larger than
\* any buffer.
Damaged(entries, bad) ==
    [i \in 1..Len(entries) |->
        IF i = bad THEN [entries[i] EXCEPT !.reclen = @ + bufferSize] ELSE entries[i]]

\* A run lists a directory and then counts its files; a run over a damaged
\* directory starts with either of the two.
InitDir ==
    /\ \E ex \in BOOLEAN, asc \in BOOLEAN, es \in Directories,
          fn \in {"listDirectory", "countFiles"} :
         \E bad \in 0..(IF Len(es) = 2 THEN 2 ELSE 3) :
            /\ ~ex => (Len(es) = 2 /\ bad = 0)
            /\ fn = "countFiles" => (asc /\ bad # 0)
            /\ dir = [DirIdle EXCEPT !.pc = "start", !.fn = fn,
                                     !.ascending = asc, !.exists = ex, !.exists0 = ex,
                                     !.entries = Damaged(es, bad), !.bad = bad]
    /\ codec = CodecIdle
    /\ ctor = CtorIdle
    /\ resolve = ResolveIdle
    /\ stream = StreamIdle
    /\ twin = TwinIdle
    /\ rotate = RotateIdle
    /\ encryptionKey = <<>>
    /\ names = [p \in Paths |-> NoIno]
    /\ inodes = [i \in Inodes |-> <<>>]
    /\ disk0 = [p \in Paths |-> Absent]
    /\ pc = [q \in Procs |-> "idle"]
    /\ call = [q \in Procs |-> NoCall]
    /\ fd = [q \in Procs |-> NoIno]
    /\ locked = [q \in Procs |-> FALSE]
    /\ synced = [q \in Procs |-> FALSE]
    /\ size = [q \in Procs |-> 0]
    /\ buf = [q \in Procs |-> <<>>]
    /\ out = [q \in Procs |-> <<>>]
    /\ ret = [q \in Procs |-> Fail("unset")]
    /\ pre = [q \in Procs |-> Absent]
    /\ last = [p \in Paths |-> NoLast]
    /\ callers = {}
    /\ menu = {}
    /\ budget = 0

\* A plausible slip: the open of a listing creates what is missing.
listDirectoryFlagsCreate == {"O_RDONLY", "O_CREAT"}

\* The flags listDirectory and countFiles pass to syscall.Open.
listDirectoryFlags == {"O_RDONLY"}

\* syscall.Open(filepath.Clean(absPath), O_RDONLY) of listDirectory and of
\* countFiles: ENOENT on a missing path; a file opens as a directory does.
DirOpen ==
    /\ dir.pc = "start"
    /\ dir' = IF dir.exists
              THEN [dir EXCEPT !.pc = "read", !.fd = "open", !.pos = 1]
              ELSE IF "O_CREAT" \in listDirectoryFlags
              THEN [dir EXCEPT !.pc = "read", !.fd = "open", !.pos = 1,
                               !.exists = TRUE, !.isdir = FALSE]
              ELSE [dir EXCEPT !.pc = "returned", !.err = "ENOENT"]
    /\ UNCHANGED <<codec, ctor, resolve, stream, twin, rotate, fsvars>>

\* One round of the outer loop: ReadDirent into the scratch buffer (ENOTDIR
\* when the descriptor is that of a file), then the inner loop over the
\* records it delivered.
DirReadDirent ==
    /\ dir.pc = "read"
    /\ \E r \in {IF dir.isdir THEN ReadDirent(dir.entries, dir.pos, bufferSize)
                 ELSE [err |-> "ENOTDIR", buf |-> <<>>, k |-> 0]} :
       \E l \in {listRecords(r.buf, dir.result)}, c \in {countRecords(r.buf, dir.count)} :
         \E e \in {IF dir.fn = "listDirectory" THEN l.err ELSE c.err} :
           dir' =
             IF r.err # "nil"
             THEN [dir EXCEPT !.pc = "returned", !.fd = "closed", !.err = r.err]
             ELSE IF Len(r.buf) <= 0
             THEN [dir EXCEPT !.pc = "close"]
             ELSE IF e # "nil"
             THEN [dir EXCEPT !.pc = "panicked", !.err = e]
             ELSE IF dir.fn = "listDirectory"
             THEN [dir EXCEPT !.pos = @ + r.k, !.result = l.result]
             ELSE [dir EXCEPT !.pos = @ + r.k, !.count = c.result]
    /\ UNCHANGED <<codec, ctor, resolve, stream, twin, rotate, fsvars>>

\* syscall.Close(fd), and for listDirectory the sort, then the return.
DirClose ==
    /\ dir.pc = "close"
    /\ dir' = [dir EXCEPT !.pc = "returned", !.fd = "closed",
                          !.result = IF dir.fn = "listDirectory"
                                     THEN SortSlice(@, dir.ascending) ELSE @]
    /\ UNCHANGED <<codec, ctor, resolve, stream, twin, rotate, fsvars>>

\* The caller goes on to count the files of the directory it has listed.
DirCountFiles ==
    /\ dir.pc = "returned"
    /\ dir.fn = "listDirectory"
    /\ dir.err = "nil"
    /\ dir' = [dir EXCEPT !.pc = "start", !.fn = "countFiles"]
    /\ UNCHANGED <<codec, ctor, resolve, stream, twin, rotate, fsvars>>

NextDir == DirOpen \/ DirReadDirent \/ DirClose \/ DirCountFiles

SpecDir == InitDir /\ [][NextDir]_vars

\* The names a listing is to return: those of the live entries but "." and "..".
ListedNames(entries) ==
    {entries[i].name : i \in {j \in 1..Len(entries) :
                                 entries[j].ino # 0 /\ entries[j].name \notin {Dot, DotDot}}}

\* C17: ListDirectory of a directory of well-formed records returns no error
\* and every name of a live entry other than "." and ".." exactly once, in
\* strictly ascending byte order when ascending is true and in strictly
\* descending order (the reverse) when it is false.
C17_ListingSortedFiltered ==
    (/\ dir.pc = "returned"
     /\ dir.fn = "listDirectory"
     /\ dir.exists
     /\ dir.bad = 0)
    => /\ dir.err = "nil"
       /\ Len(dir.result) = Cardinality(ListedNames(dir.entries))
       /\ {dir.result[i] : i \in 1..Len(dir.result)} = ListedNames(dir.entries)
       /\ \A i, j \in 1..Len(dir.result) :
            i < j => IF dir.ascending
                     THEN StringLess(dir.result[i], dir.result[j])
                     ELSE StringLess(dir.result[j], dir.result[i])

\* Three names delivered out of order over more than one ReadDirent, one of
\* them a prefix of another, have been listed in descending order.
C17_Witness ==
    /\ dir.pc = "returned"
    /\ dir.fn = "listDirectory"
    /\ dir.bad = 0
    /\ ~dir.ascending
    /\ dir.result = <<(<<98>>), (<<97, 98>>), (<<97>>)>>
    /\ dir.entries[3].name = <<97>>
    /\ dir.entries[4].name = <<98>>

\* C18: CountFiles of a directory of well-formed records returns no error and
\* the number of live entries whose type is regular file, which is at most
\* the length of the listing of the same directory.
C18_CountsRegularFilesOnly ==
    (/\ dir.pc = "returned"
     /\ dir.fn = "countFiles"
     /\ dir.bad = 0)
    => /\ dir.err = "nil"
       /\ dir.count = Cardinality({i \in 1..Len(dir.entries) :
                                      dir.entries[i].type = DT_REG /\ dir.entries[i].ino # 0})
       /\ dir.count <= Len(dir.result)

\* A directory of a regular file, a subdirectory and a deleted regular file
\* has been listed (two names) and counted (one file).
C18_Witness ==
    /\ dir.pc = "returned"
    /\ dir.fn = "countFiles"
    /\ dir.bad = 0
    /\ dir.count = 1
    /\ Len(dir.result) = 2
    /\ \E i, j, k \in 3..Len(dir.entries) :
         /\ dir.entries[i].type = DT_REG /\ dir.entries[i].ino # 0
         /\ dir.entries[j].type = 4 /\ dir.entries[j].ino # 0
         /\ dir.entries[k].type = DT_REG /\ dir.entries[k].ino = 0

\* C19: when ReadDirent delivers a record whose length field exceeds the bytes
\* that remain in the buffer, ListDirectory and CountFiles return a Corrupt
\* error; they do not panic.
C19_MalformedRecordReported ==
    (dir.bad # 0 /\ dir.pc \in {"returned", "panicked"})
    => (dir.pc = "returned" /\ dir.err = "Corrupt")

root == <<"srv", "data">>

Tree0 ==
    {<<>>, <<"etc">>, <<"srv">>, <<"srv", "secret">>,
     <<"srv", "data">>, <<"srv", "data", "a">>, <<"srv", "data", "a", "a">>}

\* The path arguments of the model: up to MaxDepth components.
PathArgs == UNION {[1..n -> {"a", ".", ".."}] : n \in 0..MaxDepth}

\* filepath.Clean of a rooted path: empty and "." components are dropped, and
\* ".." drops the component before it (at "/" it is dropped itself).
RECURSIVE CleanFrom(_, _)
CleanFrom(done, todo) ==
    IF Len(todo) = 0 THEN done
    ELSE IF Head(todo) \in {"", "."} THEN CleanFrom(done, Tail(todo))
    ELSE IF Head(todo) = ".."
    THEN CleanFrom(SubSeq(done, 1, Len(done) - 1), Tail(todo))
    ELSE CleanFrom(Append(done, Head(todo)), Tail(todo))

\* filepath.Clean(storage.root + "/" + path)
Clean(path) == CleanFrom(<<>>, root \o path)

\* a is b or an ancestor of b.
IsPrefix(a, b) == Len(a) <= Len(b) /\ SubSeq(b, 1, Len(a)) = a

\* filepath.Dir of a cleaned path.
Dir(filename) == SubSeq(filename, 1, Len(filename) - 1)

\* os.MkdirAll(dir): dir and every ancestor it lacks.
MkdirAll(tree, d) == tree \cup {SubSeq(d, 1, n) : n \in 0..Len(d)}

InitPaths ==
    /\ \E m \in {"Delete", "TouchFile", "WriteFile", "WriteFileExclusive",
                 "AppendFile", "ReadFileFully", "Exists"},
          a \in PathArgs :
         resolve = [ResolveIdle EXCEPT !.pc = "start", !.method = m, !.path = a,
                                       !.tree = Tree0, !.tree0 = Tree0]
    /\ codec = CodecIdle
    /\ ctor = CtorIdle
    /\ dir = DirIdle
    /\ stream = StreamIdle
    /\ twin = TwinIdle
    /\ rotate = RotateIdle
    /\ encryptionKey = <<>>
    /\ names = [p \in Paths |-> NoIno]
    /\ inodes = [i \in Inodes |-> <<>>]
    /\ disk0 = [p \in Paths |-> Absent]
    /\ pc = [q \in Procs |-> "idle"]
    /\ call = [q \in Procs |-> NoCall]
    /\ fd = [q \in Procs |-> NoIno]
    /\ locked = [q \in Procs |-> FALSE]
    /\ synced = [q \in Procs |-> FALSE]
    /\ size = [q \in Procs |-> 0]
    /\ buf = [q \in Procs |-> <<>>]
    /\ out = [q \in Procs |-> <<>>]
    /\ ret = [q \in Procs |-> Fail("unset")]
    /\ pre = [q \in Procs |-> Absent]
    /\ last = [p \in Paths |-> NoLast]
    /\ callers = {}
    /\ menu = {}
    /\ budget = 0

\* Delete: os.RemoveAll(filepath.Clean(root + "/" + path)) removes the path
\* and all below it.
PathDelete ==
    /\ resolve.pc = "start"
    /\ resolve.method = "Delete"
    /\ LET filename == Clean(resolve.path)
       IN  resolve' = [resolve EXCEPT !.pc = "done", !.filename = filename,
                         !.tree = {f \in @ : ~IsPrefix(filename, f)}]
    /\ UNCHANGED <<codec, ctor, dir, stream, twin, rotate, fsvars>>

\* TouchFile, WriteFile, WriteFileExclusive, AppendFile: os.MkdirAll of the
\* directory of the cleaned path, then the open that creates the file.
PathCreate ==
    /\ resolve.pc = "start"
    /\ resolve.method \in {"TouchFile", "WriteFile", "WriteFileExclusive", "AppendFile"}
    /\ LET filename == Clean(resolve.path)
           exclusive == resolve.method \in {"TouchFile", "WriteFileExclusive"}
       IN  resolve' =
             IF filename \in resolve.tree /\ exclusive
             THEN [resolve EXCEPT !.pc = "done", !.filename = filename, !.err = "EEXIST",
                                  !.tree = MkdirAll(@, Dir(filename))]
             ELSE [resolve EXCEPT !.pc = "done", !.filename = filename,
                                  !.tree = MkdirAll(@, Dir(filename)) \cup {filename}]
    /\ UNCHANGED <<codec, ctor, dir, stream, twin, rotate, fsvars>>

\* ReadFileFully, Exists: the open or stat of the cleaned path.
PathLookup ==
    /\ resolve.pc = "start"
    /\ resolve.method \in {"ReadFileFully", "Exists"}
    /\ LET filename == Clean(resolve.path)
       IN  resolve' = [resolve EXCEPT !.pc = "done", !.filename = filename,
                         !.err = IF filename \in resolve.tree \/ resolve.method = "Exists"
                                 THEN "nil" ELSE "ENOENT"]
    /\ UNCHANGED <<codec, ctor, dir, stream, twin, rotate, fsvars>>

NextPaths == PathDelete \/ PathCreate \/ PathLookup

SpecPaths == InitPaths /\ [][NextPaths]_vars

\* C20: the absolute path a call works on is the root or lies below it, and
\* the files and directories that are neither stay as they were.
C20_RootContainment ==
    resolve.pc = "done"
    => /\ IsPrefix(root, resolve.filename)
       /\ {f \in resolve.tree : ~IsPrefix(root, f)}
            = {f \in resolve.tree0 : ~IsPrefix(root, f)}

\* ------------------------------------------------------------- reader runs
\* (*os.File).Read(p) at an offset: (0, nil) for an empty p, (0, io.EOF) at the
\* end of the file, and otherwise some bytes, at most len(p), with no error.
SourceRead(content, offset, len) ==
    IF len = 0 THEN {[n |-> 0, err |-> "nil"]}
    ELSE IF offset >= Len(content) THEN {[n |-> 0, err |-> "EOF"]}
    ELSE {[n |-> k, err |-> "nil"] : k \in 1..Min(len, Len(content) - offset)}

\* fileReader.Read after n, err := reader.source.Read(p).
fileReaderRead(source, r) ==
    IF source = "nil" THEN [n |-> 0, err |-> "no source to read from", source |-> source]
    ELSE IF r.n = 0 THEN [n |-> 0, err |-> "EOF", source |-> source]
    ELSE IF r.err # "nil" THEN [n |-> r.n, err |-> r.err, source |-> "closed"]
    ELSE [n |-> r.n, err |-> "nil", source |-> source]

InitStream ==
    /\ \E c \in Messages, ex \in BOOLEAN :
         stream = [StreamIdle EXCEPT !.pc = "start", !.content = IF ex THEN c ELSE <<>>,
                                     !.exists = ex]
    /\ codec = CodecIdle
    /\ ctor = CtorIdle
    /\ dir = DirIdle
    /\ resolve = ResolveIdle
    /\ twin = TwinIdle
    /\ rotate = RotateIdle
    /\ encryptionKey = <<>>
    /\ names = [p \in Paths |-> NoIno]
    /\ inodes = [i \in Inodes |-> <<>>]
    /\ disk0 = [p \in Paths |-> Absent]
    /\ pc = [q \in Procs |-> "idle"]
    /\ call = [q \in Procs |-> NoCall]
    /\ fd = [q \in Procs |-> NoIno]
    /\ locked = [q \in Procs |-> FALSE]
    /\ synced = [q \in Procs |-> FALSE]
    /\ size = [q \in Procs |-> 0]
    /\ buf = [q \in Procs |-> <<>>]
    /\ out = [q \in Procs |-> <<>>]
    /\ ret = [q \in Procs |-> Fail("unset")]
    /\ pre = [q \in Procs |-> Absent]
    /\ last = [p \in Paths |-> NoLast]
    /\ callers = {}
    /\ menu = {}
    /\ budget = 0

\* GetFileReader: os.OpenFile(path, O_RDONLY) and a reader over the file.
GetFileReader ==
    /\ stream.pc = "start"
    /\ stream' = IF stream.exists
                 THEN [stream EXCEPT !.pc = "reading", !.source = "open"]
                 ELSE [stream EXCEPT !.pc = "failed", !.err = "ENOENT"]
    /\ UNCHANGED <<codec, ctor, dir, resolve, twin, rotate, fsvars>>

\* reader.Read(p) with a buffer of any length up to MaxBuffer.
StreamRead ==
    /\ stream.pc = "reading"
    /\ \E len \in 0..MaxBuffer :
         \E r \in SourceRead(stream.content, stream.offset, len) :
            LET res == fileReaderRead(stream.source, r)
            IN  stream' = [stream EXCEPT
                  !.pc = IF res.err = "EOF" THEN "eof"
                         ELSE IF res.err # "nil" THEN "failed" ELSE "reading",
                  !.len = len, !.n = res.n, !.err = res.err, !.source = res.source,
                  !.offset = @ + r.n,
                  !.delivered = @ \o SubSeq(stream.content, stream.offset + 1,
                                            stream.offset + res.n)]
    /\ UNCHANGED <<codec, ctor, dir, resolve, twin, rotate, fsvars>>

NextStream == GetFileReader \/ StreamRead

SpecStream == InitStream /\ [][NextStream]_vars

\* C25: every Read of the reader returns n with 0 <= n <= len(buffer), and
\* when a Read reports end-of-file the bytes delivered so far, in order, are
\* exactly the content of the file.
C25_StreamEqualsFile ==
    /\ stream.pc \in {"reading", "eof"} => (0 <= stream.n /\ stream.n <= stream.len)
    /\ stream.pc = "eof" => stream.delivered = stream.content

\* ------------------------------------------------------------- facade runs
\* A tree of files and directories below the root: for every path of the
\* model what there is at it, its permission bits, its time of last
\* modification and, for a file, its bytes.
TwinArgs == {<<>>, <<"a">>, <<"b">>, <<"a", "b">>}
TwinNodes == {root \o a : a \in TwinArgs}
NoNode == [kind |-> "none", mode |-> 0, mtime |-> 0, data |-> <<>>]
DirNode(now) == [kind |-> "dir", mode |-> ModePerm, mtime |-> now, data |-> <<>>]
FileNode(now, d) == [kind |-> "file", mode |-> ModePerm, mtime |-> now, data |-> d]

\* The name of a path component as bytes.
NameBytes(c) == IF c = "a" THEN <<97>> ELSE <<98>>

\* What there is at a path; the directories above the root are there.
kindOf(w, f) ==
    IF f \in DOMAIN w THEN w[f].kind
    ELSE IF IsPrefix(f, root) THEN "dir" ELSE "none"

\* The errno of resolving a path (stat, open, chmod): ENOENT when it or a
\* directory on the way is missing, ENOTDIR when a file is on the way.
lookup(w, f) ==
    LET off == {n \in 0..(Len(f) - 1) : kindOf(w, SubSeq(f, 1, n)) # "dir"}
        first == CHOOSE n \in off : \A m \in off : n <= m
    IN  IF off # {}
        THEN (IF kindOf(w, SubSeq(f, 1, first)) = "file" THEN "ENOTDIR" ELSE "ENOENT")
        ELSE IF kindOf(w, f) = "none" THEN "ENOENT" ELSE "nil"

\* A directory entry is made or removed in the parent of f at time now.
Touched(w, f, now) ==
    IF Dir(f) \in DOMAIN w THEN [w EXCEPT ![Dir(f)].mtime = now] ELSE w

\* os.MkdirAll(d) in a tree with times: ENOTDIR when d or a path above it is
\* a file, else d and every directory above it that is missing is made.
MkdirAllIn(w, d, now) ==
    IF \E n \in 0..Len(d) : kindOf(w, SubSeq(d, 1, n)) = "file"
    THEN [world |-> w, err |-> "ENOTDIR"]
    ELSE LET made == {g \in DOMAIN w : IsPrefix(g, d) /\ w[g].kind = "none"}
         IN  [world |-> [g \in DOMAIN w |->
                           IF g \in made THEN DirNode(now)
                           ELSE IF \E h \in made : Dir(h) = g THEN [w[g] EXCEPT !.mtime = now]
                           ELSE w[g]],
              err |-> "nil"]

\* touch(absPath): MkdirAll of the directory, then the exclusive create.
touch(w, absPath, now) ==
    LET cleanedPath == CleanFrom(<<>>, absPath)
        m == MkdirAllIn(w, Dir(cleanedPath), now)
    IN  IF m.err # "nil" THEN [world |-> w, val |-> <<>>, err |-> m.err]
        ELSE IF kindOf(m.world, cleanedPath) # "none"
        THEN [world |-> m.world, val |-> <<>>, err |-> "EEXIST"]
        ELSE [world |-> Touched([m.world EXCEPT ![cleanedPath] = FileNode(now, <<>>)],
                                cleanedPath, now),
              val |-> <<>>, err |-> "nil"]

\* chmod(absPath, mod): os.Chmod of the cleaned path.
chmod(w, absPath, mod) ==
    LET cleanedPath == CleanFrom(<<>>, absPath)
        err == lookup(w, cleanedPath)
    IN  IF err # "nil" \/ cleanedPath \notin DOMAIN w
        THEN [world |-> w, val |-> <<>>, err |-> err]
        ELSE [world |-> [w EXCEPT ![cleanedPath].mode = mod], val |-> <<>>, err |-> "nil"]

\* modTime(absPath): the time of last modification, or time.Now() and the
\* error of stat.
modTime(w, absPath, now) ==
    LET cleaned == CleanFrom(<<>>, absPath)
        err == lookup(w, cleaned)
    IN  IF err # "nil" THEN [world |-> w, val |-> now, err |-> err]
        ELSE [world |-> w, err |-> "nil",
              val |-> IF cleaned \in DOMAIN w THEN w[cleaned].mtime ELSE 0]

\* nodeExists(absPath) on a tree.
nodeExistsIn(w, absPath) ==
    LET cleaned == CleanFrom(<<>>, absPath)
        err == lookup(w, cleaned)
    IN  IF err = "nil" THEN [world |-> w, val |-> TRUE, err |-> "nil"]
        ELSE IF IsNotExist(err) THEN [world |-> w, val |-> FALSE, err |-> "nil"]
        ELSE [world |-> w, val |-> FALSE, err |-> err]

\* A plausible slip: a directory that is not empty is left as it is.
RemoveAllEmptyOnly(w, filename, now) ==
    IF lookup(w, filename) # "nil" \/ \E g \in DOMAIN w : Dir(g) = filename /\ w[g].kind # "none"
    THEN [world |-> w, val |-> <<>>, err |-> "nil"]
    ELSE [world |-> Touched([w EXCEPT ![filename] = NoNode], filename, now),
          val |-> <<>>, err |-> "nil"]

\* os.RemoveAll(filename): nil when the path does not exist, the error when a
\* file is on the way, else the path and all below it are removed.
RemoveAll(w, filename, now) ==
    LET err == lookup(w, filename)
    IN  IF IsNotExist(err) THEN [world |-> w, val |-> <<>>, err |-> "nil"]
        ELSE IF err # "nil" THEN [world |-> w, val |-> <<>>, err |-> err]
        ELSE [world |-> Touched([g \in DOMAIN w |-> IF IsPrefix(filename, g) THEN NoNode ELSE w[g]],
                                filename, now),
              val |-> <<>>, err |-> "nil"]

RECURSIVE SeqOf(_)
SeqOf(S) == IF S = {} THEN <<>> ELSE LET x == CHOOSE y \in S : TRUE IN <<x>> \o SeqOf(S \ {x})

\* The records of directory d in the order the kernel delivers them: ".",
\* "..", then its entries in one of two orders.
entriesOf(w, d, rev) ==
    LET children == {g \in DOMAIN w : Dir(g) = d /\ Len(g) > 0 /\ w[g].kind # "none"}
        order == SortSlice(SeqOf({NameBytes(g[Len(g)]) : g \in children}), ~rev)
        typeOf(name) == LET g == CHOOSE h \in children : NameBytes(h[Len(h)]) = name
                        IN  IF w[g].kind = "file" THEN DT_REG ELSE 4
    IN  <<[ino |-> 2, type |-> 4, name |-> Dot, reclen |-> RecLen(Dot)],
          [ino |-> 1, type |-> 4, name |-> DotDot, reclen |-> RecLen(DotDot)]>>
          \o [i \in 1..Len(order) |->
                [ino |-> 7, type |-> typeOf(order[i]), name |-> order[i],
                 reclen |-> RecLen(order[i])]]

\* The outer loop of listDirectory: ReadDirent until it delivers nothing.
RECURSIVE listRounds(_, _, _, _)
listRounds(entries, pos, room, result) ==
    LET r == ReadDirent(entries, pos, room)
        l == listRecords(r.buf, result)
    IN  IF r.err # "nil" THEN [err |-> r.err, result |-> result]
        ELSE IF Len(r.buf) <= 0 THEN [err |-> "nil", result |-> result]
        ELSE IF l.err # "nil" THEN l
        ELSE listRounds(entries, pos + r.k, room, l.result)

\* The outer loop of countFiles.
RECURSIVE countRounds(_, _, _, _)
countRounds(entries, pos, room, result) ==
    LET r == ReadDirent(entries, pos, room)
        c == countRecords(r.buf, result)
    IN  IF r.err # "nil" THEN [err |-> r.err, result |-> result]
        ELSE IF Len(r.buf) <= 0 THEN [err |-> "nil", result |-> result]
        ELSE IF c.err # "nil" THEN c
        ELSE countRounds(entries, pos + r.k, room, c.result)

\* listDirectory(absPath, bufferSize, ascending): the error of the open, or
\* of ReadDirent (ENOTDIR on a file), or the names sorted.
listDirectory(w, absPath, room, ascending, rev) ==
    LET cleaned == CleanFrom(<<>>, absPath)
        err == lookup(w, cleaned)
        l == listRounds(entriesOf(w, cleaned, rev), 1, room, <<>>)
    IN  IF err # "nil" THEN [world |-> w, val |-> <<>>, err |-> err]
        ELSE IF kindOf(w, cleaned) = "file" THEN [world |-> w, val |-> <<>>, err |-> "ENOTDIR"]
        ELSE IF l.err # "nil" THEN [world |-> w, val |-> l.result, err |-> l.err]
        ELSE [world |-> w, val |-> SortSlice(l.result, ascending), err |-> "nil"]

\* countFiles(absPath, bufferSize)
countFiles(w, absPath, room, rev) ==
    LET cleaned == CleanFrom(<<>>, absPath)
        err == lookup(w, cleaned)
        c == countRounds(entriesOf(w, cleaned, rev), 1, room, 0)
    IN  IF err # "nil" THEN [world |-> w, val |-> 0, err |-> err]
        ELSE IF kindOf(w, cleaned) = "file" THEN [world |-> w, val |-> 0, err |-> "ENOTDIR"]
        ELSE [world |-> w, val |-> c.result, err |-> c.err]

\* The methods of PlaintextStorage that carry no payload; c is the call, now
\* the clock and rev the order the kernel lists a directory in.
PlaintextStorageCall(w, c, now, rev) ==
    CASE c.op = "Chmod" -> chmod(w, root \o c.path, c.mod)
      [] c.op = "ListDirectory" -> listDirectory(w, root \o c.path, bufferSize, c.ascending, rev)
      [] c.op = "CountFiles" -> countFiles(w, root \o c.path, bufferSize, rev)
      [] c.op = "Exists" -> nodeExistsIn(w, root \o c.path)
      [] c.op = "LastModification" -> modTime(w, root \o c.path, now)
      [] c.op = "TouchFile" -> touch(w, root \o c.path, now)
      [] c.op = "Delete" -> RemoveAll(w, CleanFrom(<<>>, root \o c.path), now)

\* A plausible slip: the encrypted TouchFile sets up the cipher first, as the
\* encrypted writes do.
EncryptedTouchFileKeyed(key, w, path, now) ==
    IF ~NewCipherOk(key) THEN [world |-> w, val |-> <<>>, err |-> "invalid key size"]
    ELSE touch(w, root \o path, now)

\* EncryptedStorage.TouchFile
EncryptedTouchFile(key, w, path, now) == touch(w, root \o path, now)

\* The same methods of EncryptedStorage, which holds key.
EncryptedStorageCall(key, w, c, now, rev) ==
    CASE c.op = "Chmod" -> chmod(w, root \o c.path, c.mod)
      [] c.op = "ListDirectory" -> listDirectory(w, root \o c.path, bufferSize, c.ascending, rev)
      [] c.op = "CountFiles" -> countFiles(w, root \o c.path, bufferSize, rev)
      [] c.op = "Exists" -> nodeExistsIn(w, root \o c.path)
      [] c.op = "LastModification" -> modTime(w, root \o c.path, now)
      [] c.op = "TouchFile" -> EncryptedTouchFile(key, w, c.path, now)
      [] c.op = "Delete" -> RemoveAll(w, CleanFrom(<<>>, root \o c.path), now)

\* The trees a run starts from: a directory with a file in it, and a file
\* next to an empty directory.
TwinWorlds ==
    {[g \in TwinNodes |->
        IF g = root \/ g = root \o <<"a">> THEN DirNode(0)
        ELSE IF g = root \o <<"a", "b">> THEN FileNode(0, <<1>>) ELSE NoNode],
     [g \in TwinNodes |->
        IF g = root \/ g = root \o <<"b">> THEN DirNode(0)
        ELSE IF g = root \o <<"a">> THEN FileNode(0, <<1>>) ELSE NoNode]}

\* The permission bits of the Chmod calls: 0600 and 0644.
TwinMods == {384, 420}

TwinCall(op, path, ascending, mod) ==
    [op |-> op, path |-> path, ascending |-> ascending, mod |-> mod]

InitTwin ==
    /\ \E w \in TwinWorlds, key \in {Key16, <<1, 2, 3>>} :
         twin = [TwinIdle EXCEPT !.pc = "ready", !.key = key, !.plain = w, !.enc = w,
                                 !.before = w]
    /\ rotate = RotateIdle
    /\ codec = CodecIdle
    /\ ctor = CtorIdle
    /\ dir = DirIdle
    /\ resolve = ResolveIdle
    /\ stream = StreamIdle
    /\ encryptionKey = <<>>
    /\ names = [p \in Paths |-> NoIno]
    /\ inodes = [i \in Inodes |-> <<>>]
    /\ disk0 = [p \in Paths |-> Absent]
    /\ pc = [q \in Procs |-> "idle"]
    /\ call = [q \in Procs |-> NoCall]
    /\ fd = [q \in Procs |-> NoIno]
    /\ locked = [q \in Procs |-> FALSE]
    /\ synced = [q \in Procs |-> FALSE]
    /\ size = [q \in Procs |-> 0]
    /\ buf = [q \in Procs |-> <<>>]
    /\ out = [q \in Procs |-> <<>>]
    /\ ret = [q \in Procs |-> Fail("unset")]
    /\ pre = [q \in Procs |-> Absent]
    /\ last = [p \in Paths |-> NoLast]
    /\ callers = {}
    /\ menu = {}
    /\ budget = 0

\* The same call on the plaintext storage and on the encrypted storage, each
\* over its own copy of the tree, at the same time of the clock: the records
\* of the run after it, one for every order the kernel may list in.
Both(c) ==
    LET now == twin.calls + 1
        orders == IF c.op \in {"ListDirectory", "CountFiles"} THEN BOOLEAN ELSE {FALSE}
        after(P, E) ==
            [twin EXCEPT
               !.plain = P.world, !.enc = E.world, !.before = twin.plain,
               !.calls = now, !.last = c,
               !.rp = [val |-> P.val, err |-> P.err],
               !.re = [val |-> E.val, err |-> E.err],
               !.gone = IF c.op = "TouchFile" THEN {}
                        ELSE IF c.op = "Delete" /\ P.err = "nil"
                        THEN @ \cup {CleanFrom(<<>>, root \o c.path)}
                        ELSE @]
    IN  UNION {{after(P, E) :
                  P \in {PlaintextStorageCall(twin.plain, c, now, rp)},
                  E \in {EncryptedStorageCall(twin.key, twin.enc, c, now, re)}} :
               rp \in orders, re \in orders}

TwinChmod ==
    /\ twin.pc = "ready"
    /\ twin.calls < MaxTwinCalls
    /\ \E a \in TwinArgs, mod \in TwinMods : twin' \in Both(TwinCall("Chmod", a, TRUE, mod))
    /\ UNCHANGED <<codec, ctor, dir, resolve, stream, rotate, fsvars>>

TwinListDirectory ==
    /\ twin.pc = "ready"
    /\ twin.calls < MaxTwinCalls
    /\ \E a \in TwinArgs, asc \in BOOLEAN :
         twin' \in Both(TwinCall("ListDirectory", a, asc, 0))
    /\ UNCHANGED <<codec, ctor, dir, resolve, stream, rotate, fsvars>>

TwinCountFiles ==
    /\ twin.pc = "ready"
    /\ twin.calls < MaxTwinCalls
    /\ \E a \in TwinArgs : twin' \in Both(TwinCall("CountFiles", a, TRUE, 0))
    /\ UNCHANGED <<codec, ctor, dir, resolve, stream, rotate, fsvars>>

TwinExists ==
    /\ twin.pc = "ready"
    /\ twin.calls < MaxTwinCalls
    /\ \E a \in TwinArgs : twin' \in Both(TwinCall("Exists", a, TRUE, 0))
    /\ UNCHANGED <<codec, ctor, dir, resolve, stream, rotate, fsvars>>

TwinLastModification ==
    /\ twin.pc = "ready"
    /\ twin.calls < MaxTwinCalls
    /\ \E a \in TwinArgs : twin' \in Both(TwinCall("LastModification", a, TRUE, 0))
    /\ UNCHANGED <<codec, ctor, dir, resolve, stream, rotate, fsvars>>

TwinTouchFile ==
    /\ twin.pc = "ready"
    /\ twin.calls < MaxTwinCalls
    /\ \E a \in TwinArgs : twin' \in Both(TwinCall("TouchFile", a, TRUE, 0))
    /\ UNCHANGED <<codec, ctor, dir, resolve, stream, rotate, fsvars>>

TwinDelete ==
    /\ twin.pc = "ready"
    /\ twin.calls < MaxTwinCalls
    /\ \E a \in TwinArgs : twin' \in Both(TwinCall("Delete", a, TRUE, 0))
    /\ UNCHANGED <<codec, ctor, dir, resolve, stream, rotate, fsvars>>

NextTwin ==
    \/ TwinChmod
    \/ TwinListDirectory
    \/ TwinCountFiles
    \/ TwinExists
    \/ TwinLastModification
    \/ TwinTouchFile
    \/ TwinDelete

SpecTwin == InitTwin /\ [][NextTwin]_vars

C30_DeleteRemovesSubtree ==
    /\ \A f \in twin.gone :
         /\ \A g \in TwinNodes \cup {f} :
              IsPrefix(f, g) =>
                 (LET r == nodeExistsIn(twin.plain, g) IN r.val = FALSE /\ r.err = "nil")
         /\ lookup(twin.plain, f) # "nil"
         /\ Len(f) > 0 =>
              (LET l == listDirectory(twin.plain, Dir(f), bufferSize, TRUE, FALSE)
               IN  l.err = "nil" => \A i \in 1..Len(l.val) : l.val[i] # NameBytes(f[Len(f)]))
    /\ (twin.last.op = "Delete" /\ twin.rp.err = "nil")
         => \A g \in TwinNodes :
              ~IsPrefix(CleanFrom(<<>>, root \o twin.last.path), g)
                 => /\ twin.plain[g].kind = twin.before[g].kind
                    /\ twin.before[g].kind = "file" => twin.plain[g] = twin.before[g]

\* A directory with a file in it has been deleted, and the Exists of the file
\* that came next returned (false, nil).
C30_Witness ==
    /\ twin.pc = "ready"
    /\ twin.calls = 2
    /\ twin.gone = {root \o <<"a">>}
    /\ twin.last.op = "Exists"
    /\ twin.last.path = <<"a", "b">>
    /\ twin.rp = [val |-> FALSE, err |-> "nil"]
    /\ twin.plain[root \o <<"b">>].kind = "none"
    /\ twin.plain[root].mtime = 1

\* ------------------------------------------------------- key rotation runs
\* storage.encryptionKey is a slice: a pointer to the bytes and a length (and
\* a capacity, which no reader uses), each a word of its own.
HeaderWords == {"ptr", "len"}

\* The slice of a key whose bytes are the array named tag; a nil slice for
\* no key.
Header(key, tag) == [ptr |-> IF Len(key) = 0 THEN "nil" ELSE tag, len |-> Len(key)]

\* The bytes a slice header stands for, r.old and r.new being the two arrays:
\* a read through a nil pointer faults, and a length beyond the array reads
\* whatever lies behind it (fill).
KeyBytes(r, h, fill) ==
    LET array == IF h.ptr = "old" THEN r.old ELSE r.new
    IN  IF h.len = 0 THEN Ok(<<>>)
        ELSE IF h.ptr = "nil" THEN Fail("nil pointer dereference")
        ELSE Ok([i \in 1..h.len |-> IF i <= Len(array) THEN array[i] ELSE fill])

\* Storage.Encrypt
StorageEncrypt(key, iv, data) ==
    IF Len(key) = 0 THEN Fail("no encryption key setup") ELSE encrypt(key, iv, data)

\* Storage.Decrypt
StorageDecrypt(key, data) ==
    IF Len(key) = 0 THEN Fail("no encryption key setup") ELSE decrypt(key, data)

\* A storage holds the key old (none, or a key); one goroutine calls
\* SetEncryptionKey(new) while another calls Encrypt or Decrypt.
InitRotate ==
    /\ \E old \in {<<>>, Key16, Key32}, new \in {Key16, Key32},
          op \in {"Encrypt", "Decrypt"}, m \in Payloads :
         /\ old # new
         /\ rotate = [RotateIdle EXCEPT !.pc = "start", !.old = old, !.new = new,
                                        !.op = op, !.msg = m,
                                        !.hdr = Header(old, "old")]
    /\ codec = CodecIdle
    /\ ctor = CtorIdle
    /\ dir = DirIdle
    /\ resolve = ResolveIdle
    /\ stream = StreamIdle
    /\ twin = TwinIdle
    /\ encryptionKey = <<>>
    /\ names = [p \in Paths |-> NoIno]
    /\ inodes = [i \in Inodes |-> <<>>]
    /\ disk0 = [p \in Paths |-> Absent]
    /\ pc = [q \in Procs |-> "idle"]
    /\ call = [q \in Procs |-> NoCall]
    /\ fd = [q \in Procs |-> NoIno]
    /\ locked = [q \in Procs |-> FALSE]
    /\ synced = [q \in Procs |-> FALSE]
    /\ size = [q \in Procs |-> 0]
    /\ buf = [q \in Procs |-> <<>>]
    /\ out = [q \in Procs |-> <<>>]
    /\ ret = [q \in Procs |-> Fail("unset")]
    /\ pre = [q \in Procs |-> Absent]
    /\ last = [p \in Paths |-> NoLast]
    /\ callers = {}
    /\ menu = {}
    /\ budget = 0

\* storage.encryptionKey = key: a plain assignment, which stores the words of
\* the slice one by one, in an order the build chooses.
SetEncryptionKey ==
    /\ rotate.pc \in {"start", "copied", "returned"}
    /\ \E w \in HeaderWords \ rotate.written :
         rotate' = [rotate EXCEPT !.hdr[w] = Header(rotate.new, "new")[w],
                                  !.written = @ \cup {w}]
    /\ UNCHANGED <<codec, ctor, dir, resolve, stream, twin, fsvars>>

\* The call of Encrypt or Decrypt copies the receiver, a Storage value: it
\* loads the words of encryptionKey one by one, with no synchronisation.
RotateCopyReceiver ==
    /\ rotate.pc = "start"
    /\ \E w \in HeaderWords \ rotate.copied :
         rotate' = [rotate EXCEPT !.copy[w] = rotate.hdr[w],
                                  !.copied = @ \cup {w},
                                  !.pc = IF rotate.copied \cup {w} = HeaderWords
                                         THEN "copied" ELSE "start"]
    /\ UNCHANGED <<codec, ctor, dir, resolve, stream, twin, fsvars>>

\* The body of Encrypt or Decrypt on the copy of the receiver.
RotateUseKey ==
    /\ rotate.pc = "copied"
    /\ \E fill \in {0, 255}, iv \in IVs :
         LET k == KeyBytes(rotate, rotate.copy, fill)
             r == IF rotate.op = "Encrypt" THEN StorageEncrypt(k.val, iv, rotate.msg)
                  ELSE StorageDecrypt(k.val, iv \o rotate.msg)
         IN  rotate' = [rotate EXCEPT
               !.pc = "returned", !.key = k.val,
               !.outcome = IF ~k.ok THEN "panic" ELSE IF r.ok THEN "ok" ELSE "error"]
    /\ UNCHANGED <<codec, ctor, dir, resolve, stream, twin, fsvars>>

NextRotate == SetEncryptionKey \/ RotateCopyReceiver \/ RotateUseKey

SpecRotate == InitRotate /\ [][NextRotate]_vars

\* C37: an Encrypt or Decrypt that runs while SetEncryptionKey(new) runs
\* works with the whole old key or with the whole new key, never with
\* anything else, and does not fault.
C37_KeySwapAtomic ==
    rotate.pc = "returned"
    => (rotate.outcome # "panic" /\ rotate.key \in {rotate.old, rotate.new})

\* --------------------------------------------------- encrypted reader runs
\* encryptedFileReader.Read(p) after n, err := reader.source.Read(data), data
\* being len(p) + aes.BlockSize bytes of which got were read: the front of
\* data is taken for an IV, the rest is decrypted and copied to p, and n is
\* returned as it came from the source.
encryptedFileReaderRead(key, source, len, r, got) ==
    LET data == got \o Zeros((len + BlockSize) - Len(got))
        iv == SubSeq(data, 1, BlockSize)
        p == XORKeyStream(key, iv, SubSeq(data, BlockSize + 1, Len(data)), TRUE)
    IN  IF source = "nil" THEN [n |-> 0, err |-> "no source to read from", source |-> source, p |-> Zeros(len)]
        ELSE IF r.n = 0 THEN [n |-> 0, err |-> "EOF", source |-> source, p |-> Zeros(len)]
        ELSE IF r.err # "nil" THEN [n |-> r.n, err |-> r.err, source |-> "closed", p |-> p]
        ELSE [n |-> r.n, err |-> "nil", source |-> source, p |-> p]

\* (*os.File).Read(data) of a regular file that no one writes to, data not
\* empty: (0, io.EOF) at the end, else all the bytes there are, up to len(data).
FileRead(content, offset, len) ==
    IF offset >= Len(content) THEN [n |-> 0, err |-> "EOF"]
    ELSE [n |-> Min(len, Len(content) - offset), err |-> "nil"]

\* The file holds what Encrypt made of a message under the key of the storage.
InitEncStream ==
    /\ \E k \in ValidKeys, m \in Payloads \cup {[i \in 1..(BlockSize + 1) |-> i]},
          iv \in IVs, ex \in BOOLEAN :
         stream = [StreamIdle EXCEPT !.pc = "start", !.key = k, !.exists = ex,
                                     !.content = IF ex THEN encrypt(k, iv, m).val ELSE <<>>]
    /\ codec = CodecIdle
    /\ ctor = CtorIdle
    /\ dir = DirIdle
    /\ resolve = ResolveIdle
    /\ twin = TwinIdle
    /\ rotate = RotateIdle
    /\ encryptionKey = <<>>
    /\ names = [p \in Paths |-> NoIno]
    /\ inodes = [i \in Inodes |-> <<>>]
    /\ disk0 = [p \in Paths |-> Absent]
    /\ pc = [q \in Procs |-> "idle"]
    /\ call = [q \in Procs |-> NoCall]
    /\ fd = [q \in Procs |-> NoIno]
    /\ locked = [q \in Procs |-> FALSE]
    /\ synced = [q \in Procs |-> FALSE]
    /\ size = [q \in Procs |-> 0]
    /\ buf = [q \in Procs |-> <<>>]
    /\ out = [q \in Procs |-> <<>>]
    /\ ret = [q \in Procs |-> Fail("unset")]
    /\ pre = [q \in Procs |-> Absent]
    /\ last = [p \in Paths |-> NoLast]
    /\ callers = {}
    /\ menu = {}
    /\ budget = 0

\* EncryptedStorage.GetFileReader: the cipher of the key, os.OpenFile of the
\* path, and a reader over the two; full is what ReadFileFully returns for
\* the same file.
EncGetFileReader ==
    /\ stream.pc = "start"
    /\ stream' =
         IF Len(stream.key) = 0 \/ ~NewCipherOk(stream.key)
         THEN [stream EXCEPT !.pc = "failed", !.err = "invalid key"]
         ELSE IF ~stream.exists
         THEN [stream EXCEPT !.pc = "failed", !.err = "ENOENT"]
         ELSE [stream EXCEPT !.pc = "reading", !.source = "open",
                             !.full = StorageDecrypt(stream.key, stream.content)]
    /\ UNCHANGED <<codec, ctor, dir, resolve, twin, rotate, fsvars>>

\* reader.Read(p) with a buffer of 1 to MaxBuffer bytes; the caller takes the
\* first n bytes of p, or all of p when n is more than p holds.
EncStreamRead ==
    /\ stream.pc = "reading"
    /\ \E len \in 1..MaxBuffer :
         \E r \in {FileRead(stream.content, stream.offset, len + BlockSize)} :
            LET got == SubSeq(stream.content, stream.offset + 1, stream.offset + r.n)
                res == encryptedFileReaderRead(stream.key, stream.source, len, r, got)
            IN  stream' = [stream EXCEPT
                  !.pc = IF res.err = "EOF" THEN "eof"
                         ELSE IF res.err # "nil" THEN "failed" ELSE "reading",
                  !.len = len, !.n = res.n, !.err = res.err, !.source = res.source,
                  !.offset = @ + r.n,
                  !.delivered = @ \o SubSeq(res.p, 1, Min(res.n, len))]
    /\ UNCHANGED <<codec, ctor, dir, resolve, twin, rotate, fsvars>>

NextEncStream == EncGetFileReader \/ EncStreamRead

SpecEncStream == InitEncStream /\ [][NextEncStream]_vars

\* C39: every Read(p) of the reader of the encrypted storage returns n with
\* 0 <= n <= len(p), and when a Read reports end-of-file the bytes delivered
\* so far, in order, are the plaintext ReadFileFully returns for the file.
C39_EncryptedStreamEqualsPlaintext ==
    /\ stream.pc \in {"reading", "eof"} => (0 <= stream.n /\ stream.n <= stream.len)
    /\ stream.pc = "eof" => (stream.full.ok /\ stream.delivered = stream.full.val)

\* ---------------------------------------------------------------- scan runs
\* A listing and a count of a directory run while a caller of the storage
\* works on a file in it and other processes remove and create entries.
ScanTypes == <<DT_REG, 4, DT_REG>>

\* The directories a scan starts with: ".", "..", and "a", "b" and "ab", each
\* live (ino 7) or the slot of a removed entry (ino 0).
ScanDirectories ==
    {<<[ino |-> 2, type |-> 4, name |-> Dot, reclen |-> RecLen(Dot)],
       [ino |-> 1, type |-> 4, name |-> DotDot, reclen |-> RecLen(DotDot)]>>
       \o [i \in 1..Len(FileNames) |->
             [ino |-> inos[i], type |-> ScanTypes[i], name |-> FileNames[i],
              reclen |-> RecLen(FileNames[i])]] :
       inos \in {<<7, 7, 7>>, <<0, 7, 7>>}}

ScanMenu ==
    Menu(WritingOps, {LongestPayload})
      \cup Menu({"ReadFileFully", "Exists", "LastModification"}, {<<>>})

\* The path of the listing is a directory, a file or missing; a directory may
\* hold a damaged record.
InitScan ==
    /\ \E kind \in {"dir", "file", "none"}, es \in ScanDirectories, bad \in {0, 4},
          fn \in {"listDirectory", "countFiles"} :
         /\ kind # "dir" => (bad = 0 /\ \A i \in 3..Len(es) : es[i].ino = 7)
         /\ bad # 0 => \A i \in 3..Len(es) : es[i].ino = 7
         /\ fn = "countFiles" => kind # "dir"
         /\ dir = [DirIdle EXCEPT !.pc = "start", !.fn = fn,
                                  !.exists = kind # "none", !.exists0 = kind # "none",
                                  !.isdir = kind = "dir",
                                  !.entries = Damaged(es, bad), !.bad = bad]
    /\ codec = CodecIdle
    /\ ctor = CtorIdle
    /\ resolve = ResolveIdle
    /\ stream = StreamIdle
    /\ twin = TwinIdle
    /\ rotate = RotateIdle
    /\ encryptionKey = Key32
    /\ \E present \in SUBSET Paths :
         \E content \in [present -> {LongestPayload} \cap InitialContents(encryptionKey)] :
            /\ names = [p \in Paths |-> IF p \in present THEN p ELSE NoIno]
            /\ inodes = [i \in Inodes |-> IF i \in present THEN content[i] ELSE <<>>]
    /\ disk0 = [p \in Paths |-> Stat(p)]
    /\ pc = [q \in Procs |-> "idle"]
    /\ call = [q \in Procs |-> NoCall]
    /\ fd = [q \in Procs |-> NoIno]
    /\ locked = [q \in Procs |-> FALSE]
    /\ synced = [q \in Procs |-> FALSE]
    /\ size = [q \in Procs |-> 0]
    /\ buf = [q \in Procs |-> <<>>]
    /\ out = [q \in Procs |-> <<>>]
    /\ ret = [q \in Procs |-> Fail("unset")]
    /\ pre = [q \in Procs |-> Absent]
    /\ last = [p \in Paths |-> NoLast]
    /\ callers = {1}
    /\ menu = ScanMenu
    /\ budget = MaxScanCalls

\* Another process removes an entry of the directory, or creates one in the
\* slot of a removed entry, while the directory is being read.
ScanChange ==
    /\ dir.pc = "read"
    /\ dir.exists
    /\ dir.isdir
    /\ Cardinality(dir.changed) < MaxChanges
    /\ \E i \in 3..Len(dir.entries) :
         /\ i \notin dir.changed
         /\ dir' = [dir EXCEPT !.entries[i].ino = IF @ = 0 THEN 7 ELSE 0,
                               !.changed = @ \cup {i}]
    /\ UNCHANGED <<codec, ctor, resolve, stream, twin, rotate, fsvars>>

\* The steps of a listing or a count.
ScanStep == DirOpen \/ DirReadDirent \/ DirClose \/ DirCountFiles

NextScan ==
    \/ ScanStep
    \/ ScanChange
    \/ \E q \in Procs :
         \/ Call(q)
         \/ Open(q)
         \/ Flock(q)
         \/ Fstat(q)
         \/ Read(q)
         \/ Write(q)
         \/ Unlock(q)
         \/ Close(q)
         \/ Fsync(q)
         \/ Exists(q)
         \/ LastModification(q)
         \/ Return(q)

\* The listing and the calls that only stat go on running; the caller that
\* takes the lock may stop at any step, the lock in its hand.
SpecScan ==
    /\ InitScan
    /\ [][NextScan]_vars
    /\ WF_vars(ScanStep)
    /\ \A q \in Procs : WF_vars(Exists(q) \/ LastModification(q))

\* The entries of the directory that were there, unchanged, from the start of
\* the listing to its end.
StableLive ==
    {i \in 3..Len(dir.entries) : i \notin dir.changed /\ dir.entries[i].ino # 0}

Times(name) == Cardinality({k \in 1..Len(dir.result) : dir.result[k] = name})

Scanning == dir.pc \in {"start", "read", "close"}

C32_MissingDirectoryFailsCleanly ==
    (dir.pc = "returned" /\ (~dir.exists0 \/ ~dir.isdir))
    => /\ dir.err # "nil"
       /\ dir.result = <<>>
       /\ dir.count = 0
       /\ dir.fd = "closed"
       /\ dir.exists = dir.exists0

\* CountFiles of a path that is a file has opened it, failed in ReadDirent
\* and returned.
C32_Witness ==
    /\ dir.pc = "returned"
    /\ dir.fn = "countFiles"
    /\ dir.exists0
    /\ ~dir.isdir
    /\ dir.err = "ENOTDIR"
    /\ dir.fd = "closed"

ReadOnlyOps == {"ReadFileFully", "Exists", "LastModification"}

\* C36: no step of ReadFileFully, Exists or LastModification changes a name
\* or the bytes of a file, and no step of ListDirectory or CountFiles changes
\* the directory or what is at its path; ReadFileFully of an absent path
\* returns an error and the path stays absent.
C36_ReadOnlyOpsChangeNothing ==
    /\ [][/\ \A q \in Procs :
               (pc'[q] # pc[q] /\ call[q].op \in ReadOnlyOps)
               => \A p \in Paths :
                    /\ names'[p] = names[p]
                    /\ names[p] # NoIno => inodes'[names[p]] = inodes[names[p]]
          /\ dir'.pc # dir.pc
               => /\ dir'.exists = dir.exists
                  /\ dir'.isdir = dir.isdir
                  /\ dir'.entries = dir.entries]_vars
    /\ [](\A q \in Procs :
            (pc[q] = "done" /\ call[q].op = "ReadFileFully" /\ ~pre[q].exists)
            => (~ret[q].ok /\ ~Stat(call[q].path).exists))

\* A ReadFileFully of an absent path is at its return with an error, and a
\* count of a directory has returned after its listing.
C36_Witness ==
    /\ \E q \in Procs :
         /\ pc[q] = "done"
         /\ call[q].op = "ReadFileFully"
         /\ ~pre[q].exists
         /\ ~ret[q].ok
    /\ dir.pc = "returned"
    /\ dir.fn = "countFiles"
    /\ dir.isdir
    /\ dir.err = "nil"
====
